---------------------------- MODULE EntriesProofs ----------------------------
(***************************************************************************)
(* What is proved about the objects a rule is put together from: what the  *)
(* options of MARK do, which revision the registry has, why a constructor  *)
(* raises, that nothing is freed while it is in use, and that a generated  *)
(* rule does what it was asked to.                                         *)
(***************************************************************************)
EXTENDS Entries, SequenceLemmas, FiniteSetTheorems, TLAPS

\* What MARK leaves for the kernel, in revision 2 and the two before it,
\* makes of every mark what the help of the option says, for every value,
\* every mask and every width of marks (mark_tg_parse, MARK_parse_v1,
\* MARK_parse_v0).
THEOREM MarkDoesWhatItSays ==
    ASSUME NEW revision \in 0..2, NEW o, NEW n \in SUBSET MarkBits,
           o.opt \in MarkOptions(revision),
           o.arg.value \in SUBSET MarkBits,
           o.arg.mask = None \/ o.arg.mask \in SUBSET MarkBits,
           ~MarkRejects(revision, {}, o)
    PROVE  Marked(revision, MarkTakes(revision, o), n) = MarkSays(o, n)
<1> DEFINE v == o.arg.value
           m == MaskOf(o.arg)
<1>1. v \subseteq MarkBits /\ m \subseteq MarkBits
  BY DEF MaskOf
<1>2. CASE revision = 0
  <2>1. o.opt = "set-mark" /\ m = MarkBits
    BY <1>2 DEF MarkRejects, MaskOf
  <2>2. Marked(revision, MarkTakes(revision, o), n) = v
    BY <1>2, <2>1 DEF Marked, MarkTakes
  <2>3. MarkSays(o, n) = (n \ m) \cup v
    BY <2>1 DEF MarkSays
  <2> QED
    BY <2>1, <2>2, <2>3
<1>3. CASE revision = 1
  <2>1. m = MarkBits /\ o.opt \in {"set-mark", "and-mark", "or-mark"}
    BY <1>3 DEF MarkRejects, MaskOf, MarkOptions
  <2>2. CASE o.opt = "set-mark"
    <3>1. Marked(revision, MarkTakes(revision, o), n) = v
      BY <1>3, <2>2 DEF Marked, MarkTakes
    <3>2. MarkSays(o, n) = (n \ m) \cup v
      BY <2>2 DEF MarkSays
    <3> QED
      BY <2>1, <3>1, <3>2
  <2>3. CASE o.opt = "and-mark"
    BY <1>3, <2>3 DEF Marked, MarkTakes, MarkSays
  <2>4. CASE o.opt = "or-mark"
    BY <1>3, <2>4 DEF Marked, MarkTakes, MarkSays
  <2> QED
    BY <2>1, <2>2, <2>3, <2>4
<1>4. CASE revision = 2
  <2> DEFINE d == MarkTakes(revision, o)
  <2>1. Marked(revision, d, n) = SymDiff(n \ d.mask, d.mark)
    BY <1>4 DEF Marked
  <2>2. CASE o.opt = "set-mark"
    <3>1. d.mark = v /\ d.mask = v \cup m
      BY <1>4, <2>2 DEF MarkTakes
    <3>2. MarkSays(o, n) = (n \ m) \cup v
      BY <2>2 DEF MarkSays
    <3> QED
      BY <2>1, <3>1, <3>2 DEF SymDiff
  <2>3. CASE o.opt = "set-xmark"
    <3>1. d.mark = v /\ d.mask = m
      BY <1>4, <2>3 DEF MarkTakes
    <3>2. MarkSays(o, n) = SymDiff(n \ m, v)
      BY <2>3 DEF MarkSays
    <3> QED
      BY <2>1, <3>1, <3>2
  <2>4. CASE o.opt = "and-mark"
    <3>1. d.mark = {} /\ d.mask = MarkBits \ v
      BY <1>4, <2>4 DEF MarkTakes
    <3>2. MarkSays(o, n) = n \cap v
      BY <2>4 DEF MarkSays
    <3> QED
      BY <2>1, <3>1, <3>2 DEF SymDiff
  <2>5. CASE o.opt = "or-mark"
    <3>1. d.mark = v /\ d.mask = v
      BY <1>4, <2>5 DEF MarkTakes
    <3>2. MarkSays(o, n) = n \cup v
      BY <2>5 DEF MarkSays
    <3> QED
      BY <2>1, <3>1, <3>2 DEF SymDiff
  <2>6. CASE o.opt = "xor-mark"
    <3>1. d.mark = v /\ d.mask = {}
      BY <1>4, <2>6 DEF MarkTakes
    <3>2. MarkSays(o, n) = SymDiff(n, v)
      BY <2>6 DEF MarkSays
    <3> QED
      BY <2>1, <3>1, <3>2 DEF SymDiff
  <2> QED
    BY <1>4, <2>2, <2>3, <2>4, <2>5, <2>6 DEF MarkOptions
<1> QED
  BY <1>2, <1>3, <1>4

-----------------------------------------------------------------------------
(* The registry.                                                           *)

\* What Registry comes to, extension by extension.
LEMMA RegistrySteps ==
    ASSUME NEW k
    PROVE  \E f : /\ f[0] = {}
                  /\ \A i \in 1..Len(Builtin) : f[i] = Register(k, f[i - 1], Builtin[i])
                  /\ Registry(k) = f[Len(Builtin)]
<1> DEFINE n == Len(Builtin)
           A == SUBSET Range(Builtin)
           Unfold(g, s) == IF s = {} THEN {}
                         ELSE Register(k, g[s \ {Max(s)}], Builtin[Max(s)])
           iter == CHOOSE iter : iter = [s \in SUBSET DOMAIN Builtin |-> Unfold(iter, s)]
           step == [p \in (1..n) \X A |-> Register(k, p[2], Builtin[p[1]])]
<1>1. n \in Nat /\ DOMAIN Builtin = 1..n
  BY DEF Builtin
<1>2. Registry(k) = iter[DOMAIN Builtin]
  BY DEF Registry, FoldLeft, MapThenFoldSet
<1>3. step \in [(1..n) \X A -> A]
  <2>1. ASSUME NEW p \in (1..n) \X A PROVE Register(k, p[2], Builtin[p[1]]) \in A
    <3>1. Builtin[p[1]] \in Range(Builtin) /\ p[2] \in A
      BY <1>1 DEF Range
    <3> QED
      BY <3>1 DEF Register, Named
  <2> QED
    BY <2>1
<1> HIDE DEF n
<1>4. PICK g : Folding(g, n, A, {}, step)
  <2> HIDE DEF step
  <2>1. {} \in A
    OBVIOUS
  <2> HIDE DEF A
  <2> QED
    BY <1>1, <1>3, <2>1, FoldExists
<1>5. ASSUME NEW s \in SUBSET (1..n) PROVE g[s] = Unfold(g, s)
  <2> HIDE DEF A
  <2> QED
    BY <1>4 DEF Folding
<1> HIDE DEF Unfold, A
<1>6. iter = [s \in SUBSET (1..n) |-> Unfold(iter, s)]
  <2>1. g = [s \in SUBSET (1..n) |-> Unfold(g, s)]
    <3>1. g \in [SUBSET (1..n) -> A]
      BY <1>4 DEF Folding
    <3> QED
      BY <1>5, <3>1
  <2> QED
    BY <1>1, <2>1
<1> HIDE DEF iter
<1> DEFINE f == [i \in 0..n |-> iter[1..i]]
<1>7. ASSUME NEW i \in 1..n PROVE f[i] = Register(k, f[i - 1], Builtin[i])
  <2>1. i \in Nat /\ i # 0 /\ 1..i \in SUBSET (1..n) /\ i - 1 \in 0..n
    BY <1>1
  <2>2. 1..i # {} /\ Max(1..i) = i /\ (1..i) \ {i} = 1..(i - 1)
    BY <2>1, FirstNumbers
  <2>3. iter[1..i] = Unfold(iter, 1..i)
    BY <1>6, <2>1
  <2>4. Unfold(iter, 1..i) = Register(k, iter[1..(i - 1)], Builtin[i])
    BY <2>2 DEF Unfold
  <2> QED
    BY <2>1, <2>3, <2>4
<1>8. f[0] = {}
  <2>1. 1..0 = {} /\ {} \in SUBSET (1..n)
    OBVIOUS
  <2> QED
    BY <1>1, <1>6, <2>1 DEF Unfold
<1>9. Registry(k) = f[n]
  BY <1>1, <1>2
<1> QED
  BY <1>7, <1>8, <1>9 DEF n

\* Of the extensions seen so far, r has one of each kind and name, the best
\* that is there if kernel k is asked.
BestOf(k, seen, r) ==
    /\ r \subseteq seen
    /\ \A x, y \in r : x.kind = y.kind /\ x.name = y.name => x = y
    /\ \A x \in seen :
          Interesting(x) =>
              \E y \in Named(r, x.kind, x.name) :
                  Compatible(k, x) => Compatible(k, y) /\ y.revision >= x.revision

\* The kernel is asked for a name and a revision.
LEMMA CompatibleAlike ==
    ASSUME NEW k, NEW x, NEW y, x.name = y.name, x.revision = y.revision
    PROVE  Compatible(k, x) <=> Compatible(k, y)
  BY DEF Compatible

\* Registering one more keeps it that way.
LEMMA RegisterBest ==
    ASSUME NEW k, NEW seen, NEW r, BestOf(k, seen, r), NEW x,
           \A y \in seen \cup {x} : y.revision \in Nat
    PROVE  BestOf(k, seen \cup {x}, Register(k, r, x))
<1> DEFINE old == Named(r, x.kind, x.name)
           new == Register(k, r, x)
           both == seen \cup {x}
<1> USE DEF Named
<1> SUFFICES BestOf(k, both, new)
  OBVIOUS
<1>1. CASE ~Interesting(x)
  <2>1. new = r
    BY <1>1 DEF Register
  <2> HIDE DEF new
  <2> QED
    BY <1>1, <2>1 DEF BestOf
<1>2. CASE Interesting(x) /\ \E y \in old : Keeps(k, y, x)
  <2>1. new = r
    BY <1>2 DEF Register
  <2>2. PICK y \in old : Keeps(k, y, x)
    BY <1>2
  <2>3. Compatible(k, x) => Compatible(k, y) /\ y.revision >= x.revision
    <3>1. y.name = x.name /\ y.revision \in Nat /\ x.revision \in Nat
      BY <2>2 DEF BestOf
    <3>2. y.revision = x.revision => (Compatible(k, x) <=> Compatible(k, y))
      BY <3>1, CompatibleAlike
    <3> QED
      BY <2>2, <3>1, <3>2 DEF Keeps
  <2> HIDE DEF new
  <2> QED
    BY <2>1, <2>2, <2>3 DEF BestOf
<1>3. CASE Interesting(x) /\ \A y \in old : ~Keeps(k, y, x)
  <2>1. new = (r \ old) \cup {x}
    BY <1>3 DEF Register
  <2> HIDE DEF new
  <2>2. new \subseteq both
    BY <2>1 DEF BestOf
  <2>3. \A y, z \in new : y.kind = z.kind /\ y.name = z.name => y = z
    BY <2>1 DEF BestOf
  <2>4. ASSUME NEW z \in both, Interesting(z)
        PROVE  \E y \in Named(new, z.kind, z.name) :
                  Compatible(k, z) => Compatible(k, y) /\ y.revision >= z.revision
    <3>1. CASE z = x
      BY <2>1, <3>1
    <3>2. CASE z # x
      <4>1. PICK y \in Named(r, z.kind, z.name) :
                  Compatible(k, z) => Compatible(k, y) /\ y.revision >= z.revision
        BY <2>4, <3>2 DEF BestOf
      <4>2. CASE y \notin old
        BY <2>1, <4>1, <4>2
      <4>3. CASE y \in old
        <5>1. ~Keeps(k, y, x) /\ z.kind = x.kind /\ z.name = x.name
          BY <1>3, <4>1, <4>3
        <5>2. Compatible(k, x) /\ (Compatible(k, y) => y.revision <= x.revision)
          <6>1. y.revision \in Nat /\ x.revision \in Nat
            BY <4>1 DEF BestOf
          <6> QED
            BY <5>1, <6>1 DEF Keeps
        <5>3. y.revision \in Nat /\ x.revision \in Nat /\ z.revision \in Nat
          BY <4>1, <2>4 DEF BestOf
        <5>4. x \in Named(new, z.kind, z.name)
          BY <2>1, <5>1
        <5> QED
          BY <4>1, <5>2, <5>3, <5>4
      <4> QED
        BY <4>2, <4>3
    <3> QED
      BY <3>1, <3>2
  <2> QED
    BY <2>2, <2>3, <2>4 DEF BestOf
<1> QED
  BY <1>1, <1>2, <1>3

LEMMA RegistryBest ==
    ASSUME NEW k
    PROVE  BestOf(k, Range(Builtin), Registry(k))
<1> DEFINE n == Len(Builtin)
           Seen(i) == {Builtin[j] : j \in 1..i}
<1>1. n \in Nat /\ DOMAIN Builtin = 1..n /\ \A i \in 1..n : Builtin[i].revision \in Nat
  BY DEF Builtin, ExtMatch, ExtTarget
<1>2. PICK f : /\ f[0] = {}
               /\ \A i \in 1..n : f[i] = Register(k, f[i - 1], Builtin[i])
               /\ Registry(k) = f[n]
  BY RegistrySteps
<1> HIDE DEF n
<1> DEFINE Wrong == {i \in 0..n : ~BestOf(k, Seen(i), f[i])}
<1>3. Wrong = {}
  <2> SUFFICES ASSUME Wrong # {} PROVE FALSE
    OBVIOUS
  <2>1. Wrong \subseteq Nat
    OBVIOUS
  <2>2. PICK i \in Wrong : \A j \in Wrong : i <= j
    <3> HIDE DEF Wrong
    <3> QED
      BY <2>1, Smallest
  <2>3. CASE i = 0
    <3>1. BestOf(k, Seen(0), f[0])
      BY <1>2 DEF BestOf
    <3> QED
      BY <2>2, <2>3, <3>1
  <2>4. CASE i # 0
    <3>1. i \in 1..n /\ i - 1 \in 0..n /\ i - 1 \notin Wrong
      <4>1. i \in 0..n
        BY <2>2
      <4>2. ~(i <= i - 1)
        BY <4>1
      <4>3. i - 1 \notin Wrong
        <5> HIDE DEF Wrong
        <5> QED
          BY <2>2, <4>2
      <4> QED
        BY <1>1, <2>4, <4>1, <4>3
    <3>2. Seen(i) = Seen(i - 1) \cup {Builtin[i]}
      <4>1. 1..i = 1..(i - 1) \cup {i}
        BY <3>1
      <4> QED
        BY <4>1
    <3>3. \A y \in Seen(i) : y.revision \in Nat
      BY <1>1, <3>1
    <3>4. BestOf(k, Seen(i - 1), f[i - 1]) /\ f[i] = Register(k, f[i - 1], Builtin[i])
      BY <1>2, <3>1
    <3> HIDE DEF Seen
    <3>5. BestOf(k, Seen(i), f[i])
      BY <3>2, <3>3, <3>4, RegisterBest
    <3> QED
      BY <2>2, <3>5
  <2> QED
    BY <2>3, <2>4
<1>4. n \in 0..n /\ Seen(n) = Range(Builtin)
  BY <1>1 DEF Range
<1> HIDE DEF Seen
<1>5. BestOf(k, Seen(n), f[n])
  BY <1>3, <1>4
<1> QED
  BY <1>2, <1>4, <1>5

\* BestOf says what BestRevision does.
LEMMA BestRegistered ==
    ASSUME NEW x \in Range(Builtin), Interesting(x)
    PROVE  /\ Cardinality(Named(Registry(kernel), x.kind, x.name)) = 1
           /\ Compatible(kernel, x) =>
                 \E y \in Named(Registry(kernel), x.kind, x.name) :
                     Compatible(kernel, y) /\ y.revision >= x.revision
<1> DEFINE r == Registry(kernel)
           N == Named(r, x.kind, x.name)
<1>1. BestOf(kernel, Range(Builtin), r)
  BY RegistryBest
<1> HIDE DEF r
<1>2. PICK y \in N : Compatible(kernel, x) => Compatible(kernel, y) /\ y.revision >= x.revision
  BY <1>1 DEF BestOf
<1>3. N = {y}
  BY <1>1 DEF BestOf, Named
<1>4. Cardinality({y}) = 1
  BY FS_Singleton
<1> HIDE DEF N
<1>5. Cardinality(N) = 1
  BY <1>3, <1>4
<1> QED
  BY <1>2, <1>5 DEF N, r

\* No call registers anything.
LEMMA RegistryStays == [Next]_vars => UNCHANGED <<kernel, registry>>
<1> SUFFICES ASSUME [Next]_vars PROVE UNCHANGED <<kernel, registry>>
  OBVIOUS
<1>1. ASSUME NEW s, NEW c, NEW reported, NEW raised, NEW o, NEW m, NEW r,
             Constructs(s, c, reported, raised, o, m, r)
      PROVE  UNCHANGED <<kernel, registry>>
  BY <1>1 DEF Constructs, Dies
<1>2. ASSUME NEW s, NEW c, NewMatch(s, c) PROVE UNCHANGED <<kernel, registry>>
  BY <1>1, <1>2 DEF NewMatch
<1>3. ASSUME NEW s, NEW c, NEW isChain, NewTarget(s, c, isChain)
      PROVE  UNCHANGED <<kernel, registry>>
  BY <1>1, <1>3 DEF NewTarget
<1>4. ASSUME NEW s, NEW c, NewEntry(s, c) PROVE UNCHANGED <<kernel, registry>>
  BY <1>1, <1>4 DEF NewEntry
<1>5. ASSUME NEW e, NEW x, AddMatch(e, x) \/ RemoveMatch(e, x) \/ SetTarget(e, x)
      PROVE  UNCHANGED <<kernel, registry>>
  BY <1>5 DEF AddMatch, RemoveMatch, SetTarget, Returns
<1>6. ASSUME NEW e, Generate(e) \/ Forget(e) PROVE UNCHANGED <<kernel, registry>>
  BY <1>6 DEF Generate, Forget
<1>7. CASE Next
  BY <1>2, <1>3, <1>4, <1>5, <1>6, <1>7 DEF Next
<1> QED
  BY <1>7 DEF vars

\* In every state, whatever kernel the program runs on, the registry has
\* exactly one revision of each extension, and none the kernel knows is later
\* (xtables_register_match and xtables_register_target, which nobody calls
\* after the import).
THEOREM BestCorrect == Spec => []BestRevision
<1> DEFINE Inv == registry = Registry(kernel)
<1>1. Init => Inv
  BY DEF Init
<1>2. Inv /\ [Next]_vars => Inv'
  BY RegistryStays
<1>3. Inv => BestRevision
  BY BestRegistered DEF BestRevision
<1> QED
  BY <1>1, <1>2, <1>3, PTL DEF Spec

-----------------------------------------------------------------------------
(* Options, addresses and why a constructor raises.                        *)

\* What Parse comes to, option by option.
Parsing(f, x, flags, e, args) ==
    /\ f[0] = [data |-> InitialData(x), flags |-> flags, reported |-> FALSE, raised |-> FALSE]
    /\ \A i \in 1..Len(args) : f[i] = Turn(x, e, f[i - 1], args[i])
    /\ Parse(x, flags, e, args) = f[Len(args)]

LEMMA ParseSteps ==
    ASSUME NEW x, NEW flags, NEW e, NEW S, NEW args \in Seq(S)
    PROVE  \E f : Parsing(f, x, flags, e, args)
<1> DEFINE n == Len(args)
           base == [data |-> InitialData(x), flags |-> flags, reported |-> FALSE,
                    raised |-> FALSE]
           Unfold(g, s) == IF s = {} THEN base ELSE Turn(x, e, g[s \ {Max(s)}], args[Max(s)])
           iter == CHOOSE iter : iter = [s \in SUBSET DOMAIN args |-> Unfold(iter, s)]
           P(k, g) == /\ DOMAIN g = SUBSET (1..k)
                      /\ \A s \in SUBSET (1..k) : g[s] = Unfold(g, s)
           Without == {k \in 0..n : \A g : ~P(k, g)}
<1>1. Parse(x, flags, e, args) = iter[DOMAIN args] /\ DOMAIN args = 1..n /\ n \in Nat
  BY DEF Parse, FoldLeft, MapThenFoldSet
<1> HIDE DEF base, n
<1>2. Without = {}
  <2> SUFFICES ASSUME Without # {} PROVE FALSE
    OBVIOUS
  <2>1. Without \subseteq Nat
    <3> HIDE DEF P
    <3> QED
      OBVIOUS
  <2>2. PICK k \in Without : \A j \in Without : k <= j
    BY <2>1, Smallest
  <2>3. CASE k = 0
    <3> DEFINE g == [s \in SUBSET (1..0) |-> base]
    <3>1. SUBSET (1..0) = {{}}
      OBVIOUS
    <3>2. P(0, g)
      BY <3>1
    <3> QED
      BY <2>3, <3>2
  <2>4. CASE k # 0
    <3> DEFINE j == k - 1
    <3>1. j \in Nat /\ j + 1 = k /\ j \notin Without /\ j \in 0..n
      <4> HIDE DEF P
      <4>1. k \in 0..n
        BY <2>2
      <4>2. j \notin Without
        <5>1. ~(k <= j)
          BY <4>1
        <5> HIDE DEF j, Without
        <5> QED
          BY <5>1, <2>2
      <4> QED
        BY <2>4, <4>1, <4>2, <1>1
    <3> HIDE DEF j
    <3>2. PICK f : P(j, f)
      BY <3>1
    <3> DEFINE Value(s) == IF k \in s THEN Turn(x, e, f[s \ {k}], args[k]) ELSE f[s]
               g == [s \in SUBSET (1..k) |-> Value(s)]
    <3>3. ASSUME NEW s \in SUBSET (1..k)
          PROVE  /\ s \ {k} \in SUBSET (1..j)
                 /\ k \notin s => s \in SUBSET (1..j)
                 /\ k \in s => Max(s) = k
      <4>1. s \ {k} \in SUBSET (1..j)
        BY <3>1
      <4>2. Max((s \ {k}) \cup {j + 1}) = j + 1
        <5> DEFINE t == s \ {k}
        <5>1. t \in SUBSET (1..j) /\ j \in Nat
          BY <3>1, <4>1
        <5> HIDE DEF t
        <5>2. Max(t \cup {j + 1}) = j + 1
          BY <5>1, OneMore
        <5> QED
          BY <5>2 DEF t
      <4>3. k \in s => (s \ {k}) \cup {j + 1} = s
        BY <3>1
      <4>4. k \in s => Max(s) = k
        BY <3>1, <4>2, <4>3
      <4> QED
        BY <3>1, <4>1, <4>4
    <3>4. ASSUME NEW s \in SUBSET (1..k) PROVE g[s] = Unfold(g, s)
      <4>0. g[s] = Value(s)
        OBVIOUS
      <4>1. CASE k \in s
        <5>1. s \ {k} \in SUBSET (1..k) /\ s # {} /\ Max(s) = k
          BY <3>3, <4>1
        <5>2. g[s \ {k}] = f[s \ {k}]
          BY <5>1
        <5> HIDE DEF g
        <5> QED
          BY <4>0, <4>1, <5>1, <5>2
      <4>2. CASE k \notin s /\ s # {}
        <5>1. s \in SUBSET (1..j)
          BY <3>3, <4>2
        <5>2. g[s] = f[s] /\ f[s] = Turn(x, e, f[s \ {Max(s)}], args[Max(s)])
          BY <3>2, <4>2, <5>1
        <5>3. s \ {Max(s)} \in SUBSET (1..k) /\ k \notin s \ {Max(s)}
          BY <4>2
        <5>4. g[s \ {Max(s)}] = f[s \ {Max(s)}]
          BY <5>3
        <5> HIDE DEF g
        <5> QED
          BY <4>2, <5>2, <5>4
      <4>3. CASE s = {}
        <5>1. k \notin s /\ s \in SUBSET (1..j)
          BY <4>3
        <5>2. f[s] = base
          BY <3>2, <4>3, <5>1
        <5> QED
          BY <4>0, <4>3, <5>1, <5>2
      <4> QED
        BY <4>1, <4>2, <4>3
    <3>5. P(k, g)
      <4>1. DOMAIN g = SUBSET (1..k)
        OBVIOUS
      <4> HIDE DEF g
      <4> QED
        BY <3>4, <4>1
    <3> HIDE DEF P, g
    <3> QED
      BY <3>5
  <2> QED
    BY <2>3, <2>4
<1>3. PICK g : P(n, g)
  <2> HIDE DEF P
  <2>1. n \in 0..n
    BY <1>1
  <2> QED
    BY <1>2, <2>1
<1>4. iter = [s \in SUBSET (1..n) |-> Unfold(iter, s)]
  <2> DEFINE h == [s \in SUBSET (1..n) |-> g[s]]
  <2>1. ASSUME NEW s \in SUBSET (1..n) PROVE h[s] = Unfold(h, s)
    <3>1. s \ {Max(s)} \in SUBSET (1..n)
      OBVIOUS
    <3>2. h[s] = g[s] /\ h[s \ {Max(s)}] = g[s \ {Max(s)}]
      BY <3>1
    <3> HIDE DEF h
    <3> QED
      BY <1>3, <3>2
  <2>2. h = [s \in SUBSET (1..n) |-> Unfold(h, s)]
    <3>1. \A s \in SUBSET (1..n) : g[s] = Unfold(h, s)
      BY <2>1
    <3> HIDE DEF Unfold
    <3> QED
      BY <3>1
  <2> HIDE DEF h, Unfold
  <2> QED
    BY <1>1, <2>2
<1> HIDE DEF iter, P, Without
<1> DEFINE f == [i \in 0..n |-> iter[1..i]]
<1>5. ASSUME NEW i \in 1..n PROVE f[i] = Turn(x, e, f[i - 1], args[i])
  <2>1. i \in Nat /\ i # 0 /\ 1..i \in SUBSET (1..n) /\ i - 1 \in 0..n /\ i \in 0..n
    BY <1>1
  <2>2. 1..i # {} /\ Max(1..i) = i /\ (1..i) \ {i} = 1..(i - 1)
    BY <2>1, FirstNumbers
  <2>3. iter[1..i] = Unfold(iter, 1..i)
    BY <1>4, <2>1
  <2>4. Unfold(iter, 1..i) = Turn(x, e, iter[1..(i - 1)], args[i])
    BY <2>2 DEF Unfold
  <2>5. f[i] = iter[1..i] /\ f[i - 1] = iter[1..(i - 1)]
    BY <2>1
  <2> QED
    BY <2>3, <2>4, <2>5
<1>6. f[0] = base
  <2>1. 1..0 = {} /\ {} \in SUBSET (1..n) /\ 0 \in 0..n
    BY <1>1
  <2> QED
    BY <1>4, <2>1 DEF Unfold
<1>7. Parse(x, flags, e, args) = f[n]
  BY <1>1
<1> HIDE DEF f
<1> QED
  BY <1>5, <1>6, <1>7 DEF n, base, Parsing

LEMMA BuiltinNames ==
    ASSUME NEW x \in Range(Builtin)
    PROVE  x.name \in {"tcp", "state", "TPROXY", "MARK", "NFLOG", "socket", "standard"}
  BY DEF Range, Builtin, ExtMatch, ExtTarget

\* What the parser has after i good options.
GoodSoFar(x, args, p, i) ==
    /\ {"data", "flags", "raised"} \subseteq DOMAIN p
    /\ p.raised = FALSE
    /\ p.flags = {FlagOf(x, args[j]) : j \in 1..i}

\* A good option is not rejected after the good ones before it.
LEMMA NotRejected ==
    ASSUME NEW x \in Range(Builtin), NEW S, NEW args \in Seq(S), GoodOptions(x, args),
           NEW i \in 1..Len(args), NEW flags, flags = {FlagOf(x, args[j]) : j \in 1..(i - 1)}
    PROVE  ~Rejects(x, flags, args[i])
<1> DEFINE o == args[i]
<1>1. /\ o.opt \in OptionsOf(x) /\ ~Rejects(x, {}, o)
      /\ \A j \in 1..(i - 1) : j \in DOMAIN args /\ i \in DOMAIN args /\ j # i
  BY DEF GoodOptions
<1>2. x.name \in {"tcp", "TPROXY", "NFLOG"} => FlagOf(x, o) \notin flags
  BY <1>1 DEF GoodOptions
<1>3. x.name = "MARK" => flags = {}
  <2>1. CASE x.name = "MARK"
    <3>1. i = 1
      BY <2>1 DEF GoodOptions
    <3> QED
      BY <3>1
  <2> QED
    BY <2>1
<1> SUFFICES ~Rejects(x, flags, o)
  OBVIOUS
<1> HIDE DEF o
<1>4. CASE x.name = "tcp"
  BY <1>1, <1>2, <1>4 DEF Rejects, TcpRejects, FlagOf
<1>5. CASE x.name = "state"
  BY <1>1, <1>5 DEF Rejects
<1>6. CASE x.name = "TPROXY"
  BY <1>1, <1>2, <1>6 DEF Rejects, TproxyRejects, FlagOf
<1>7. CASE x.name = "MARK"
  BY <1>1, <1>3, <1>7
<1>8. CASE x.name = "NFLOG"
  BY <1>1, <1>2, <1>8 DEF Rejects, NflogRejects, FlagOf
<1>9. x.name \notin {"socket", "standard"}
  BY <1>1 DEF OptionsOf
<1> QED
  BY <1>4, <1>5, <1>6, <1>7, <1>8, <1>9, BuiltinNames

\* Good options raise no exception if no error was reported before.
LEMMA GoodNotRaised ==
    ASSUME NEW x \in Range(Builtin), NEW S, NEW args \in Seq(S), GoodOptions(x, args),
           NEW e, e = FALSE
    PROVE  ~Parse(x, {}, e, args).raised
<1> DEFINE n == Len(args)
<1>1. n \in Nat /\ DOMAIN args = 1..n
  OBVIOUS
<1>2. PICK f : Parsing(f, x, {}, e, args)
  BY ParseSteps
<1>3. /\ f[0] = [data |-> InitialData(x), flags |-> {}, reported |-> FALSE, raised |-> FALSE]
      /\ \A i \in 1..n : f[i] = Turn(x, e, f[i - 1], args[i])
      /\ Parse(x, {}, e, args) = f[n]
  BY <1>2 DEF Parsing
<1> HIDE DEF n
<1>4. GoodSoFar(x, args, f[0], 0)
  BY <1>3 DEF GoodSoFar
<1>5. ASSUME NEW i \in 1..n, GoodSoFar(x, args, f[i - 1], i - 1)
      PROVE  GoodSoFar(x, args, f[i], i)
  <2> DEFINE p == f[i - 1]
             o == args[i]
             data == Takes(x, p.data, o)
             new == [p EXCEPT !.data = data, !.flags = @ \cup {FlagOf(x, o)}, !.raised = e]
  <2>1. o.opt \in OptionsOf(x)
    BY <1>1 DEF GoodOptions
  <2>2. ~Rejects(x, p.flags, o)
    BY <1>5, NotRejected DEF GoodSoFar, n
  <2>3. ~p.raised
    BY <1>5 DEF GoodSoFar
  <2>4. f[i] = Turn(x, e, p, o)
    BY <1>3
  <2>5. Turn(x, e, p, o) = new
    <3> HIDE DEF p, o
    <3> QED
      BY <2>1, <2>2, <2>3 DEF Turn
  <2>6. 1..i = 1..(i - 1) \cup {i}
    BY <1>1
  <2>7. {FlagOf(x, args[j]) : j \in 1..i} = {FlagOf(x, args[j]) : j \in 1..(i - 1)} \cup {FlagOf(x, o)}
    BY <2>6
  <2> HIDE DEF o, data
  <2>8. /\ {"data", "flags", "raised"} \subseteq DOMAIN new
        /\ new.raised = FALSE /\ new.flags = p.flags \cup {FlagOf(x, o)}
    BY <1>5 DEF GoodSoFar
  <2> HIDE DEF new
  <2> QED
    BY <1>5, <2>4, <2>5, <2>7, <2>8 DEF GoodSoFar
<1> DEFINE Wrong == {i \in 0..n : ~GoodSoFar(x, args, f[i], i)}
<1>6. Wrong = {}
  <2> SUFFICES ASSUME Wrong # {} PROVE FALSE
    OBVIOUS
  <2>1. Wrong \subseteq Nat
    OBVIOUS
  <2> HIDE DEF Wrong
  <2>2. PICK i \in Wrong : \A j \in Wrong : i <= j
    BY <2>1, Smallest
  <2>3. i \in 0..n /\ ~GoodSoFar(x, args, f[i], i)
    BY <2>2 DEF Wrong
  <2>4. i # 0
    BY <1>4, <2>3
  <2>5. i \in 1..n /\ i - 1 \in 0..n /\ i - 1 \notin Wrong
    <3>1. i \in 1..n /\ i - 1 \in 0..n /\ ~(i <= i - 1)
      BY <1>1, <2>3, <2>4
    <3> QED
      BY <2>2, <3>1
  <2>6. GoodSoFar(x, args, f[i - 1], i - 1)
    BY <2>5 DEF Wrong
  <2> QED
    BY <1>5, <2>3, <2>5, <2>6
<1>7. GoodSoFar(x, args, f[n], n)
  <2>1. n \in 0..n
    BY <1>1
  <2> QED
    BY <1>6, <2>1
<1>8. f[n].raised = FALSE
  BY <1>7 DEF GoodSoFar
<1>9. Parse(x, {}, e, args) = f[n]
  BY <1>3
<1> QED
  BY <1>8, <1>9

\* What Masked comes to, turn by turn.
Masking(f, hosts, mask) ==
    /\ f[0] = [addresses |-> hosts, j |-> 1, n |-> Len(hosts)]
    /\ \A i \in 1..Len(hosts) : f[i] = MaskTurn(f[i - 1], mask)
    /\ Masked(hosts, mask) = f[Len(hosts)]

LEMMA MaskedSteps ==
    ASSUME NEW mask, NEW S, NEW hosts \in Seq(S)
    PROVE  \E f : Masking(f, hosts, mask)
<1> DEFINE n == Len(hosts)
           V == SUBSET UNION Range(hosts)
           A == [addresses : [1..n -> V], j : Nat, n : Int]
           base == [addresses |-> hosts, j |-> 1, n |-> Len(hosts)]
           idx == [i \in 1..n |-> i]
           Unfold(g, s) == IF s = {} THEN base ELSE MaskTurn(g[s \ {Max(s)}], mask)
           iter == CHOOSE iter : iter = [s \in SUBSET DOMAIN idx |-> Unfold(iter, s)]
           step == [p \in (1..n) \X A |-> MaskTurn(p[2], mask)]
<1>1. n \in Nat /\ DOMAIN hosts = 1..n /\ DOMAIN idx = 1..n
  OBVIOUS
<1>2. Masked(hosts, mask) = iter[DOMAIN idx]
  BY DEF Masked, FoldLeft, MapThenFoldSet
<1>3. base \in A
  <2>1. \A i \in 1..n : hosts[i] \in V
    BY <1>1 DEF Range
  <2>2. hosts \in [1..n -> V]
    BY <1>1, <2>1
  <2> HIDE DEF V
  <2> QED
    BY <1>1, <2>2
<1>4. ASSUME NEW r \in A PROVE MaskTurn(r, mask) \in A
  <2> DEFINE a == [r.addresses EXCEPT ![r.j] = @ \cap mask]
  <2>1. \A v \in V : v \cap mask \in V
    OBVIOUS
  <2>2. r.addresses \in [1..n -> V] /\ r.j \in Nat /\ r.n \in Int
    OBVIOUS
  <2> HIDE DEF V
  <2>3. a \in [1..n -> V]
    BY <2>1, <2>2
  <2> HIDE DEF a
  <2>4. ASSUME NEW twice \in BOOLEAN
        PROVE  [addresses |-> a, j |-> IF twice THEN r.j ELSE r.j + 1,
                n |-> IF twice THEN r.n - 1 ELSE r.n] \in A
    BY <2>2, <2>3
  <2> HIDE DEF A
  <2> QED
    BY <2>4 DEF MaskTurn, a
<1> HIDE DEF n, A, base, idx
<1>5. step \in [(1..n) \X A -> A]
  BY <1>4
<1>6. PICK g : Folding(g, n, A, base, step)
  <2> HIDE DEF step
  <2> QED
    BY <1>1, <1>3, <1>5, FoldExists
<1>7. ASSUME NEW s \in SUBSET (1..n) PROVE g[s] = Unfold(g, s)
  BY <1>6 DEF Folding
<1> HIDE DEF Unfold
<1>8. iter = [s \in SUBSET (1..n) |-> Unfold(iter, s)]
  <2>1. g = [s \in SUBSET (1..n) |-> Unfold(g, s)]
    <3>1. g \in [SUBSET (1..n) -> A]
      BY <1>6 DEF Folding
    <3> QED
      BY <1>7, <3>1
  <2> QED
    BY <1>1, <2>1
<1> HIDE DEF iter
<1> DEFINE f == [i \in 0..n |-> iter[1..i]]
<1>9. ASSUME NEW i \in 1..n PROVE f[i] = MaskTurn(f[i - 1], mask)
  <2>1. i \in Nat /\ i # 0 /\ 1..i \in SUBSET (1..n) /\ i - 1 \in 0..n
    BY <1>1
  <2>2. 1..i # {} /\ Max(1..i) = i /\ (1..i) \ {i} = 1..(i - 1)
    BY <2>1, FirstNumbers
  <2>3. iter[1..i] = Unfold(iter, 1..i)
    BY <1>8, <2>1
  <2>4. Unfold(iter, 1..i) = MaskTurn(iter[1..(i - 1)], mask)
    BY <2>2 DEF Unfold
  <2> QED
    BY <2>1, <2>3, <2>4
<1>10. f[0] = base
  <2>1. 1..0 = {} /\ {} \in SUBSET (1..n) /\ 0 \in 0..n
    BY <1>1
  <2> QED
    BY <1>8, <2>1 DEF Unfold
<1>11. Masked(hosts, mask) = f[n]
  BY <1>1, <1>2
<1> HIDE DEF f
<1> QED
  BY <1>9, <1>10, <1>11 DEF Masking, n, base

\* What is left after i turns if every host is v under the mask.
OneLeft(hosts, mask, v, r, i) ==
    /\ {"addresses", "j", "n"} \subseteq DOMAIN r
    /\ DOMAIN r.addresses = 1..Len(hosts)
    /\ r.j = 2
    /\ r.n = Len(hosts) - i + 1
    /\ r.addresses[1] = v
    /\ Len(hosts) > 1 => r.addresses[2] \cap mask = v

\* Every host is v under the mask, and there is one.
SameUnder(hosts, mask, v) ==
    Len(hosts) > 0 /\ \A i \in 1..Len(hosts) : hosts[i] \cap mask = v

\* After the first turn the loop stays at the second place: every further host
\* costs one address, and the second is masked over and over.
LEMMA MaskedToOne ==
    ASSUME NEW mask, NEW S, NEW hosts \in Seq(S), NEW v, SameUnder(hosts, mask, v)
    PROVE  Masked(hosts, mask).n = 1 /\ Masked(hosts, mask).addresses[1] = v
<1> DEFINE n == Len(hosts)
<1>1. n \in Nat /\ n > 0 /\ DOMAIN hosts = 1..n /\ \A i \in 1..n : hosts[i] \cap mask = v
  BY DEF SameUnder
<1>2. PICK f : Masking(f, hosts, mask)
  BY MaskedSteps
<1>3. /\ f[0] = [addresses |-> hosts, j |-> 1, n |-> n]
      /\ \A i \in 1..n : f[i] = MaskTurn(f[i - 1], mask)
      /\ Masked(hosts, mask) = f[n]
  BY <1>2 DEF Masking
<1>4. OneLeft(hosts, mask, v, f[1], 1)
  <2> DEFINE a == [hosts EXCEPT ![1] = @ \cap mask]
  <2>1. 1 \in 1..n /\ f[1] = MaskTurn(f[0], mask)
    BY <1>1, <1>3
  <2>2. MaskTurn(f[0], mask) = [addresses |-> a, j |-> 2, n |-> n]
    <3>1. f[0].addresses = hosts /\ f[0].j = 1 /\ f[0].n = n
      BY <1>3
    <3>2. 1..(1 - 1) = {} /\ 1 + 1 = 2
      OBVIOUS
    <3> QED
      BY <3>1, <3>2 DEF MaskTurn
  <2>3. DOMAIN a = 1..n /\ a[1] = v /\ (n > 1 => a[2] \cap mask = v)
    BY <1>1
  <2> HIDE DEF a
  <2> QED
    BY <1>1, <2>1, <2>2, <2>3 DEF OneLeft
<1>5. ASSUME NEW i \in 2..n, OneLeft(hosts, mask, v, f[i - 1], i - 1)
      PROVE  OneLeft(hosts, mask, v, f[i], i)
  <2> DEFINE r == f[i - 1]
             a == [r.addresses EXCEPT ![2] = @ \cap mask]
             new == [addresses |-> a, j |-> 2, n |-> r.n - 1]
  <2>1. f[i] = MaskTurn(r, mask)
    <3>1. i \in 1..n
      BY <1>1
    <3> QED
      BY <1>3, <3>1
  <2>2. /\ DOMAIN r.addresses = 1..n /\ r.j = 2 /\ r.n = n - (i - 1) + 1
        /\ r.addresses[1] = v /\ r.addresses[2] \cap mask = v /\ n > 1
    BY <1>1, <1>5 DEF OneLeft
  <2> HIDE DEF r
  <2>3. DOMAIN a = 1..n /\ a[1] = v /\ a[2] = v
    BY <1>1, <2>2
  <2> HIDE DEF a
  <2>4. \E k \in 1..(2 - 1) : a[k] = a[2]
    BY <2>3
  <2>5. MaskTurn(r, mask) = new
    BY <2>2, <2>4 DEF MaskTurn, a
  <2>6. r.n - 1 = n - i + 1
    BY <1>1, <2>2
  <2>7. a[2] \cap mask = v
    BY <2>2, <2>3
  <2> QED
    BY <2>1, <2>3, <2>5, <2>6, <2>7 DEF OneLeft
<1> HIDE DEF n
<1> DEFINE Wrong == {i \in 1..n : ~OneLeft(hosts, mask, v, f[i], i)}
<1>6. Wrong = {}
  <2> SUFFICES ASSUME Wrong # {} PROVE FALSE
    OBVIOUS
  <2>1. Wrong \subseteq Nat
    OBVIOUS
  <2> HIDE DEF Wrong
  <2>2. PICK i \in Wrong : \A j \in Wrong : i <= j
    BY <2>1, Smallest
  <2>3. i \in 1..n /\ ~OneLeft(hosts, mask, v, f[i], i)
    BY <2>2 DEF Wrong
  <2>4. i # 1
    BY <1>4, <2>3
  <2>5. i \in 2..n /\ i - 1 \in 1..n /\ i - 1 \notin Wrong
    <3>1. i \in 2..n /\ i - 1 \in 1..n /\ ~(i <= i - 1)
      BY <1>1, <2>3, <2>4
    <3> QED
      BY <2>2, <3>1
  <2>6. OneLeft(hosts, mask, v, f[i - 1], i - 1)
    BY <2>5 DEF Wrong
  <2> QED
    BY <1>5, <2>3, <2>5, <2>6
<1>7. OneLeft(hosts, mask, v, f[n], n)
  <2>1. n \in 1..n
    BY <1>1
  <2> QED
    BY <1>6, <2>1
<1>8. f[n].n = 1 /\ f[n].addresses[1] = v
  BY <1>1, <1>7 DEF OneLeft, n
<1> QED
  BY <1>3, <1>8

\* A good name stands for one address, however many hosts it has: the loop of
\* xtables_ipparse_any, which masks the same place again and again, leaves
\* what each of the hosts is under the mask, and nothing is reported.
THEOREM GoodAddressIsOne ==
    ASSUME NEW name, name.hosts \in Seq(Range(name.hosts)), GoodAddress(name)
    PROVE  /\ Address(name).n = 1
           /\ Address(name).error = FALSE
           /\ {Address(name).address} = {a \cap name.mask : a \in Range(name.hosts)}
<1> DEFINE hosts == name.hosts
           mask == name.mask
           n == Len(hosts)
           T == {a \cap mask : a \in Range(hosts)}
           F == [i \in 1..n |-> hosts[i] \cap mask]
<1>1. n \in Nat /\ DOMAIN hosts = 1..n /\ Range(hosts) = {hosts[i] : i \in 1..n}
  BY DEF Range
<1>2. mask # Bad /\ Cardinality(T) = 1
  BY DEF GoodAddress
<1> HIDE DEF n
<1>3. IsFiniteSet(T)
  <2>1. F \in [1..n -> T] /\ \A t \in T : \E i \in 1..n : F[i] = t
    BY <1>1
  <2> HIDE DEF F, T
  <2>2. ExistsSurjection(1..n, T)
    BY <2>1 DEF ExistsSurjection, Surjection
  <2> QED
    BY <1>1, <2>2, FS_NatSurjection
<1>4. PICK v : T = {v}
  <2> HIDE DEF T
  <2> QED
    BY <1>2, <1>3, FS_Singleton
<1>5. n > 0 /\ \A i \in 1..n : hosts[i] \cap mask = v
  <2>1. \A i \in 1..n : hosts[i] \cap mask \in T
    BY <1>1
  <2>2. n # 0
    <3>1. v \in T
      BY <1>4
    <3> QED
      BY <1>1, <3>1
  <2>3. \A i \in 1..n : hosts[i] \cap mask = v
    <3> HIDE DEF T
    <3> QED
      BY <1>4, <2>1
  <2> QED
    BY <1>1, <2>2, <2>3
<1> HIDE DEF T
<1>6. CASE mask = {}
  <2> DEFINE null == <<{}>>
  <2>1. null \in Seq({{}}) /\ SameUnder(null, mask, {})
    BY <1>6 DEF SameUnder
  <2>2. null # <<>>
    OBVIOUS
  <2> HIDE DEF null
  <2>3. Masked(null, mask).n = 1 /\ Masked(null, mask).addresses[1] = {}
    BY <2>1, MaskedToOne
  <2>4. Address(name).n = 1 /\ Address(name).error = FALSE /\ Address(name).address = {}
    BY <1>2, <1>6, <2>2, <2>3 DEF Address, null
  <2>5. v = {}
    <3>1. 1 \in 1..n
      BY <1>1, <1>5
    <3> QED
      BY <1>5, <1>6, <3>1
  <2> QED
    BY <1>4, <2>4, <2>5 DEF T
<1>7. CASE mask # {}
  <2>1. hosts # <<>>
    BY <1>1, <1>5 DEF n
  <2>2. Masked(hosts, mask).n = 1 /\ Masked(hosts, mask).addresses[1] = v
    <3>1. SameUnder(hosts, mask, v) /\ hosts \in Seq(Range(hosts))
      BY <1>5 DEF n, SameUnder
    <3> HIDE DEF hosts, mask
    <3> QED
      BY <3>1, MaskedToOne
  <2>3. Address(name).n = 1 /\ Address(name).error = FALSE /\ Address(name).address = v
    BY <1>2, <1>7, <2>1, <2>2 DEF Address
  <2> QED
    BY <1>4, <2>3 DEF T
<1> QED
  BY <1>6, <1>7

\* A constructor raises for a reason if it does not raise for good arguments.
LEMMA ConstructsReasoned ==
    ASSUME registry' = registry, NEW s, NEW c, NEW reported, NEW raised, NEW o, NEW m, NEW r,
           Constructs(s, c, reported, raised, o, m, r),
           raised /\ ~error => ~Good(c)
    PROVE  RefusedForAReason'
<1>1. CASE event' = [call |-> "none"]
  BY <1>1 DEF RefusedForAReason
<1>2. CASE raised /\ event' = [call |-> "refused", with |-> c, before |-> error]
  <2>1. event'.with = c /\ event'.before = error
    BY <1>2
  <2>2. Good(c)' <=> Good(c)
    BY DEF Good
  <2> QED
    BY <1>2, <2>1, <2>2 DEF RefusedForAReason
<1> QED
  BY <1>1, <1>2 DEF Constructs, Dies

\* There is at most one extension of a kind and a name.
LEMMA OneNamed ==
    ASSUME registry = Registry(kernel), NEW kind, NEW name,
           NEW x \in Named(registry, kind, name), NEW y \in Named(registry, kind, name)
    PROVE  x = y /\ x \in Range(Builtin)
<1>1. BestOf(kernel, Range(Builtin), registry)
  BY RegistryBest
<1> QED
  BY <1>1 DEF BestOf, Named

LEMMA MatchReasoned ==
    ASSUME registry = Registry(kernel), registry' = registry, error \in BOOLEAN,
           NEW s, NEW c \in MatchCalls, NewMatch(s, c)
    PROVE  RefusedForAReason'
<1> DEFINE found == FindMatch(registry, c.name)
<1>1. c.is = "match" /\ c.args \in Seq(Range(c.args))
  BY EntriesAssumption
<1>2. CASE found = {}
  <2>1. ~Good(c)
    BY <1>1, <1>2 DEF Good
  <2>2. Constructs(s, c, FALSE, TRUE, Nothing, struct, struct)
    BY <1>2 DEF NewMatch
  <2> QED
    BY <2>1, <2>2, ConstructsReasoned
<1>3. CASE found # {}
  <2> DEFINE x == CHOOSE y \in found : TRUE
             at == Structure(c.name, s)
             p == Parse(x, {}, error, c.args)
             filled == [struct EXCEPT ![at] = [data |-> p.data, flags |-> p.flags]]
             o == [kind |-> "match", call |-> c, at |-> at, refs |-> 1]
             lost == IF at = s THEN struct ELSE filled
  <2>1. Constructs(s, c, p.reported, p.raised, o, filled, lost)
    BY <1>3 DEF NewMatch, CopiedFlags
  <2>2. x \in found
    BY <1>3
  <2> HIDE DEF o, filled, lost, at, x
  <2>3. ASSUME ~error, Good(c) PROVE ~p.raised
    <3>1. PICK y \in found : GoodOptions(y, c.args)
      BY <1>1, <2>3 DEF Good
    <3>2. y = x /\ x \in Range(Builtin)
      BY <2>2, OneNamed DEF FindMatch
    <3>3. GoodOptions(x, c.args)
      BY <3>1, <3>2
    <3>4. ~Parse(x, {}, error, c.args).raised
      <4> DEFINE e == error
      <4>1. e = FALSE
        BY <2>3
      <4> HIDE DEF e
      <4>2. ~Parse(x, {}, e, c.args).raised
        BY <1>1, <3>2, <3>3, <4>1, GoodNotRaised
      <4> QED
        BY <4>2 DEF e
    <3> QED
      BY <3>4
  <2> HIDE DEF p
  <2>4. p.raised /\ ~error => ~Good(c)
    BY <2>3
  <2> QED
    BY <2>1, <2>4, ConstructsReasoned
<1> QED
  BY <1>2, <1>3

LEMMA TargetReasoned ==
    ASSUME registry = Registry(kernel), registry' = registry, error \in BOOLEAN,
           NEW s, NEW c \in TargetCalls, NEW isChain \in BOOLEAN, NewTarget(s, c, isChain)
    PROVE  RefusedForAReason'
<1> DEFINE name == IF isChain THEN "standard" ELSE c.name
           found == FindTarget(registry, name)
           asked == [is |-> "target", name |-> name, args |-> c.args]
<1>1. /\ c.args \in Seq(Range(c.args))
      /\ Good(asked) => \E y \in found : GoodOptions(y, c.args)
  BY EntriesAssumption DEF Good
<1>2. CASE found = {}
  <2>1. Constructs(s, asked, FALSE, TRUE, Nothing, struct, struct)
    BY <1>2 DEF NewTarget
  <2> HIDE DEF asked
  <2>2. ~Good(asked)
    BY <1>1, <1>2
  <2> QED
    BY <2>1, <2>2, ConstructsReasoned
<1>3. CASE found # {}
  <2> DEFINE x == CHOOSE y \in found : TRUE
             p == Parse(x, {}, error, c.args)
             o == [kind |-> "target", call |-> c, extension |-> x, data |-> p.data, refs |-> 1]
  <2>1. Constructs(s, asked, p.reported, p.raised, o, struct, struct)
    BY <1>3 DEF NewTarget
  <2>2. x \in found
    BY <1>3
  <2> HIDE DEF o, x, asked
  <2>3. ASSUME ~error, Good(asked) PROVE ~p.raised
    <3>1. PICK y \in found : GoodOptions(y, c.args)
      BY <1>1, <2>3
    <3>2. y = x /\ x \in Range(Builtin)
      BY <2>2, OneNamed DEF FindTarget
    <3>3. GoodOptions(x, c.args)
      BY <3>1, <3>2
    <3>4. ~Parse(x, {}, error, c.args).raised
      <4> DEFINE e == error
      <4>1. e = FALSE
        BY <2>3
      <4> HIDE DEF e
      <4>2. ~Parse(x, {}, e, c.args).raised
        BY <1>1, <3>2, <3>3, <4>1, GoodNotRaised
      <4> QED
        BY <4>2 DEF e
    <3> QED
      BY <3>4
  <2> HIDE DEF p
  <2>4. p.raised /\ ~error => ~Good(asked)
    BY <2>3
  <2> QED
    BY <2>1, <2>4, ConstructsReasoned
<1> QED
  BY <1>2, <1>3

LEMMA EntryReasoned ==
    ASSUME registry' = registry, NEW s, NEW c \in EntryCalls, NewEntry(s, c)
    PROVE  RefusedForAReason'
<1> DEFINE from == Address(c.source)
           to == Address(c.destination)
           parsed == from.n = 1 /\ to.n = 1 /\ c.interface # None
           reported == \/ from.error
                       \/ from.n = 1 /\ to.error
                       \/ parsed /\ TooLong(c.interface)
           raised == from.n # 1 \/ to.n # 1 \/ (parsed /\ (error \/ reported))
           o == [kind |-> "entry", call |-> c, matches |-> <<>>, target |-> None,
                 address |-> <<from.address, to.address>>, mask |-> <<from.mask, to.mask>>,
                 interface |-> [name |-> c.interface, mask |-> InterfaceMask(c.interface)]]
<1>1. Constructs(s, c, reported, raised, o, struct, struct)
  BY DEF NewEntry
<1>2. /\ c.is = "entry"
      /\ c.source.hosts \in Seq(Range(c.source.hosts))
      /\ c.destination.hosts \in Seq(Range(c.destination.hosts))
  BY EntriesAssumption
<1>3. ASSUME Good(c) PROVE raised => error
  <2>1. GoodAddress(c.source) /\ GoodAddress(c.destination) /\ ~TooLong(c.interface)
    BY <1>2, <1>3 DEF Good
  <2>2. from.n = 1 /\ to.n = 1 /\ from.error = FALSE /\ to.error = FALSE
    BY <1>2, <2>1, GoodAddressIsOne
  <2> HIDE DEF from, to
  <2> QED
    BY <2>1, <2>2
<1> HIDE DEF raised, reported, o
<1>4. raised /\ ~error => ~Good(c)
  BY <1>3
<1> QED
  BY <1>1, <1>4, ConstructsReasoned

\* The error flag is TRUE or FALSE.
LEMMA ErrorIsBoolean == error \in BOOLEAN /\ [Next]_vars => error' \in BOOLEAN
<1> SUFFICES ASSUME error \in BOOLEAN, [Next]_vars PROVE error' \in BOOLEAN
  OBVIOUS
<1>1. ASSUME NEW s, NEW c, NEW reported, NEW raised, NEW o, NEW m, NEW r,
             Constructs(s, c, reported, raised, o, m, r)
      PROVE  error' \in BOOLEAN
  BY <1>1 DEF Constructs, Dies
<1>2. ASSUME NEW s, NEW c, NewMatch(s, c) PROVE error' \in BOOLEAN
  BY <1>1, <1>2 DEF NewMatch
<1>3. ASSUME NEW s, NEW c, NEW isChain, NewTarget(s, c, isChain)
      PROVE  error' \in BOOLEAN
  BY <1>1, <1>3 DEF NewTarget
<1>4. ASSUME NEW s, NEW c, NewEntry(s, c) PROVE error' \in BOOLEAN
  BY <1>1, <1>4 DEF NewEntry
<1>5. ASSUME NEW e, NEW x, AddMatch(e, x) \/ RemoveMatch(e, x) \/ SetTarget(e, x)
      PROVE  error' \in BOOLEAN
  BY <1>5 DEF AddMatch, RemoveMatch, SetTarget, Returns
<1>6. ASSUME NEW e, Generate(e) \/ Forget(e) PROVE error' \in BOOLEAN
  BY <1>6 DEF Generate, Forget
<1>7. CASE Next
  BY <1>2, <1>3, <1>4, <1>5, <1>6, <1>7 DEF Next
<1> QED
  BY <1>7 DEF vars

LEMMA NextReasoned ==
    ASSUME registry = Registry(kernel), error \in BOOLEAN, RefusedForAReason, [Next]_vars
    PROVE  RefusedForAReason'
<1>1. registry' = registry
  BY RegistryStays
<1>2. CASE UNCHANGED vars
  <2>1. event' = event /\ registry' = registry
    BY <1>2 DEF vars
  <2> QED
    BY <2>1 DEF RefusedForAReason, Good
<1>3. ASSUME NEW s \in Free, NEW c \in MatchCalls, NewMatch(s, c) PROVE RefusedForAReason'
  BY <1>1, <1>3, MatchReasoned
<1>4. ASSUME NEW s \in Free, NEW c \in TargetCalls, NEW isChain \in BOOLEAN,
             NewTarget(s, c, isChain)
      PROVE  RefusedForAReason'
  BY <1>1, <1>4, TargetReasoned
<1>5. ASSUME NEW s \in Free, NEW c \in EntryCalls, NewEntry(s, c) PROVE RefusedForAReason'
  BY <1>1, <1>5, EntryReasoned
<1>6. CASE event'.call # "refused"
  BY <1>6 DEF RefusedForAReason
<1>7. ASSUME NEW e, NEW x, AddMatch(e, x) \/ RemoveMatch(e, x) \/ SetTarget(e, x)
      PROVE  event'.call # "refused"
  BY <1>7 DEF AddMatch, RemoveMatch, SetTarget, Returns
<1>8. ASSUME NEW e, Generate(e) \/ Forget(e) PROVE event'.call # "refused"
  <2>1. ASSUME NEW o, NEW q, NEW t, NEW c, NEW g,
               event' = [call |-> "generate", matches |-> q, target |-> t, entry |-> c,
                         generated |-> g]
        PROVE  event'.call # "refused"
    BY <2>1
  <2>2. CASE Generate(e)
    BY <2>1, <2>2 DEF Generate
  <2>3. CASE Forget(e)
    <3>1. event' = [call |-> "none"]
      BY <2>3 DEF Forget
    <3> QED
      BY <3>1
  <2> QED
    BY <1>8, <2>2, <2>3
<1>9. CASE Next
  BY <1>3, <1>4, <1>5, <1>6, <1>7, <1>8, <1>9 DEF Next
<1> QED
  BY <1>2, <1>9

\* Until xtables has reported an error, a constructor raises only for its own
\* arguments, whatever calls came before (py_ipt_match_new, py_ipt_target_new,
\* py_ipt_entry_new): the flags of an extension are cleared for each, and the
\* hosts of a good name always come down to one address.
THEOREM RefusedCorrect == Spec => []RefusedForAReason
<1> DEFINE Inv == registry = Registry(kernel) /\ error \in BOOLEAN /\ RefusedForAReason
<1>1. Init => Inv
  <2> SUFFICES ASSUME Init PROVE Inv
    OBVIOUS
  <2>1. registry = Registry(kernel) /\ error = FALSE /\ event = [call |-> "none"]
    BY DEF Init, Imported
  <2>2. event.call # "refused"
    BY <2>1
  <2> QED
    BY <2>1, <2>2 DEF RefusedForAReason
<1>2. Inv /\ [Next]_vars => Inv'
  BY RegistryStays, ErrorIsBoolean, NextReasoned
<1>3. Inv => RefusedForAReason
  OBVIOUS
<1> QED
  BY <1>1, <1>2, <1>3, PTL DEF Spec

-----------------------------------------------------------------------------
(* Who refers to what.                                                     *)

\* A match or a target with references, and an entry.
Element(o) ==
    /\ {"kind", "refs"} \subseteq DOMAIN o
    /\ o.kind \in {"match", "target"}
    /\ o.refs \in Nat \ {0}

EntryObject(o) ==
    /\ {"kind", "matches", "target"} \subseteq DOMAIN o
    /\ o.kind = "entry"
    /\ o.matches \in Seq(Slots)
    /\ IsInjective(o.matches)
    /\ o.target \in Slots \cup {None}

Shaped(heap) ==
    /\ DOMAIN heap = Slots
    /\ \A s \in Slots : heap[s] = Nothing \/ Element(heap[s]) \/ EntryObject(heap[s])

UsesMatch(heap, e, s) == heap[e].kind = "entry" /\ Contains(heap[e].matches, s)
UsesTarget(heap, e, s) == heap[e].kind = "entry" /\ heap[e].target = s

MatchUsers(heap, s) == {e \in Slots : UsesMatch(heap, e, s)}
TargetUsers(heap, s) == {e \in Slots : UsesTarget(heap, e, s)}

\* Holders in any heap.
HoldersIn(heap, m, s) ==
    (IF s \in m THEN 1 ELSE 0) + Cardinality(MatchUsers(heap, s))
    + Cardinality(TargetUsers(heap, s))

\* Entries refer to matches and targets that are there.
Referred(heap) ==
    \A e, s \in Slots :
        /\ UsesMatch(heap, e, s) => heap[s].kind = "match"
        /\ UsesTarget(heap, e, s) => heap[s].kind = "target"

Counted(heap, m) ==
    \A s \in Slots : Element(heap[s]) => heap[s].refs >= HoldersIn(heap, m, s)

\* The invariant: every object has at least as many references as the entries
\* and the program (m) have to it, and is there as long as they do.
Kept(heap, m) ==
    /\ Shaped(heap)
    /\ Referred(heap)
    /\ m \subseteq Slots
    /\ \A s \in m : heap[s] # Nothing
    /\ Counted(heap, m)

LEMMA UsersFinite ==
    ASSUME NEW heap, NEW s
    PROVE  /\ IsFiniteSet(MatchUsers(heap, s)) /\ IsFiniteSet(TargetUsers(heap, s))
           /\ Cardinality(MatchUsers(heap, s)) \in Nat
           /\ Cardinality(TargetUsers(heap, s)) \in Nat
<1>1. MatchUsers(heap, s) \subseteq Slots /\ TargetUsers(heap, s) \subseteq Slots
  BY DEF MatchUsers, TargetUsers
<1>2. IsFiniteSet(Slots)
  BY EntriesAssumption
<1> QED
  BY <1>1, <1>2, FS_Subset, FS_CardinalityType

\* A set that gets smaller has fewer elements, one that gets one more
\* element has at most one more.
LEMMA Fewer ==
    ASSUME NEW S, IsFiniteSet(S), NEW T \in SUBSET S
    PROVE  /\ IsFiniteSet(T) /\ Cardinality(T) \in Nat /\ Cardinality(S) \in Nat
           /\ Cardinality(T) <= Cardinality(S)
           /\ \A e \in S \ T : Cardinality(T) < Cardinality(S)
<1>1. /\ IsFiniteSet(T) /\ Cardinality(T) \in Nat /\ Cardinality(S) \in Nat
      /\ Cardinality(T) <= Cardinality(S)
  BY FS_Subset, FS_CardinalityType
<1>2. ASSUME NEW e \in S \ T PROVE Cardinality(T) < Cardinality(S)
  <2>1. Cardinality(T) = Cardinality(S) => S = T
    BY FS_Subset
  <2> QED
    BY <1>1, <2>1
<1> QED
  BY <1>1, <1>2

LEMMA AtMostOneMore ==
    ASSUME NEW S, IsFiniteSet(S), NEW e, NEW T \in SUBSET (S \cup {e})
    PROVE  Cardinality(T) <= Cardinality(S) + 1
<1>1. /\ IsFiniteSet(S \cup {e}) /\ Cardinality(S) \in Nat
      /\ Cardinality(S \cup {e}) <= Cardinality(S) + 1
  BY FS_AddElement, FS_CardinalityType
<1>2. Cardinality(T) <= Cardinality(S \cup {e}) /\ Cardinality(T) \in Nat /\ Cardinality(S \cup {e}) \in Nat
  BY <1>1, Fewer
<1> QED
  BY <1>1, <1>2

LEMMA HoldersType ==
    ASSUME NEW heap, NEW m, NEW s
    PROVE  HoldersIn(heap, m, s) \in Nat
  BY UsersFinite DEF HoldersIn

\* Whoever holds s in the second heap did in the first.
NoNewHolder(h1, m1, h2, m2, s) ==
    /\ MatchUsers(h2, s) \subseteq MatchUsers(h1, s)
    /\ TargetUsers(h2, s) \subseteq TargetUsers(h1, s)
    /\ s \in m2 => s \in m1

LEMMA HoldersFewer ==
    ASSUME NEW h1, NEW m1, NEW h2, NEW m2, NEW s, NoNewHolder(h1, m1, h2, m2, s)
    PROVE  /\ HoldersIn(h2, m2, s) <= HoldersIn(h1, m1, s)
           /\ \/ s \in m1 \ m2
              \/ \E e : e \in MatchUsers(h1, s) \ MatchUsers(h2, s)
              \/ \E e : e \in TargetUsers(h1, s) \ TargetUsers(h2, s)
              => HoldersIn(h2, m2, s) < HoldersIn(h1, m1, s)
<1> DEFINE M1 == MatchUsers(h1, s)
           M2 == MatchUsers(h2, s)
           T1 == TargetUsers(h1, s)
           T2 == TargetUsers(h2, s)
<1>1. IsFiniteSet(M1) /\ IsFiniteSet(T1) /\ M2 \in SUBSET M1 /\ T2 \in SUBSET T1
  BY UsersFinite DEF NoNewHolder
<1>2. /\ Cardinality(M1) \in Nat /\ Cardinality(M2) \in Nat
      /\ Cardinality(T1) \in Nat /\ Cardinality(T2) \in Nat
  BY UsersFinite
<1>3. /\ HoldersIn(h1, m1, s) = (IF s \in m1 THEN 1 ELSE 0) + Cardinality(M1) + Cardinality(T1)
      /\ HoldersIn(h2, m2, s) = (IF s \in m2 THEN 1 ELSE 0) + Cardinality(M2) + Cardinality(T2)
  BY DEF HoldersIn
<1> HIDE DEF M1, M2, T1, T2
<1>4. /\ Cardinality(M2) <= Cardinality(M1)
      /\ \A e \in M1 \ M2 : Cardinality(M2) < Cardinality(M1)
      /\ Cardinality(T2) <= Cardinality(T1)
      /\ \A e \in T1 \ T2 : Cardinality(T2) < Cardinality(T1)
  BY <1>1, Fewer
<1>5. s \in m2 => s \in m1
  BY DEF NoNewHolder
<1>6. \/ s \in m1 \ m2
      \/ \E e : e \in M1 \ M2
      \/ \E e : e \in T1 \ T2
      => HoldersIn(h2, m2, s) < HoldersIn(h1, m1, s)
  BY <1>2, <1>3, <1>4, <1>5
<1>7. HoldersIn(h2, m2, s) <= HoldersIn(h1, m1, s)
  BY <1>2, <1>3, <1>4, <1>5
<1> QED
  BY <1>6, <1>7 DEF M1, M2, T1, T2

\* At most one entry begins to use it.
LEMMA HoldersOneMore ==
    ASSUME NEW h1, NEW h2, NEW m, NEW s, NEW e,
           \/ /\ MatchUsers(h2, s) \subseteq MatchUsers(h1, s) \cup {e}
              /\ TargetUsers(h2, s) \subseteq TargetUsers(h1, s)
           \/ /\ MatchUsers(h2, s) \subseteq MatchUsers(h1, s)
              /\ TargetUsers(h2, s) \subseteq TargetUsers(h1, s) \cup {e}
    PROVE  HoldersIn(h2, m, s) <= HoldersIn(h1, m, s) + 1
<1> DEFINE M1 == MatchUsers(h1, s)
           M2 == MatchUsers(h2, s)
           T1 == TargetUsers(h1, s)
           T2 == TargetUsers(h2, s)
<1>1. /\ IsFiniteSet(M1) /\ IsFiniteSet(T1)
      /\ Cardinality(M1) \in Nat /\ Cardinality(M2) \in Nat
      /\ Cardinality(T1) \in Nat /\ Cardinality(T2) \in Nat
  BY UsersFinite
<1>2. /\ HoldersIn(h1, m, s) = (IF s \in m THEN 1 ELSE 0) + Cardinality(M1) + Cardinality(T1)
      /\ HoldersIn(h2, m, s) = (IF s \in m THEN 1 ELSE 0) + Cardinality(M2) + Cardinality(T2)
  BY DEF HoldersIn
<1>3. \/ M2 \in SUBSET (M1 \cup {e}) /\ T2 \in SUBSET T1
      \/ M2 \in SUBSET M1 /\ T2 \in SUBSET (T1 \cup {e})
  OBVIOUS
<1> HIDE DEF M1, M2, T1, T2
<1>4. CASE M2 \in SUBSET (M1 \cup {e}) /\ T2 \in SUBSET T1
  <2>1. Cardinality(M2) <= Cardinality(M1) + 1
    BY <1>1, <1>4, AtMostOneMore
  <2>2. Cardinality(T2) <= Cardinality(T1)
    BY <1>1, <1>4, Fewer
  <2> QED
    BY <1>1, <1>2, <2>1, <2>2
<1>5. CASE M2 \in SUBSET M1 /\ T2 \in SUBSET (T1 \cup {e})
  <2>1. Cardinality(T2) <= Cardinality(T1) + 1
    BY <1>1, <1>5, AtMostOneMore
  <2>2. Cardinality(M2) <= Cardinality(M1)
    BY <1>1, <1>5, Fewer
  <2> QED
    BY <1>1, <1>2, <2>1, <2>2
<1> QED
  BY <1>3, <1>4, <1>5

\* What several hold has several references.
LEMMA HoldersAtLeast ==
    ASSUME NEW h, NEW m, NEW s
    PROVE  /\ s \in m => HoldersIn(h, m, s) >= 1
           /\ \A e \in MatchUsers(h, s) \cup TargetUsers(h, s) :
                 HoldersIn(h, m, s) >= (IF s \in m THEN 1 ELSE 0) + 1
           /\ HoldersIn(h, m, s) = 0 => s \notin m /\ MatchUsers(h, s) = {} /\ TargetUsers(h, s) = {}
<1> DEFINE M == MatchUsers(h, s)
           T == TargetUsers(h, s)
<1>1. /\ IsFiniteSet(M) /\ IsFiniteSet(T)
      /\ Cardinality(M) \in Nat /\ Cardinality(T) \in Nat
  BY UsersFinite
<1>2. HoldersIn(h, m, s) = (IF s \in m THEN 1 ELSE 0) + Cardinality(M) + Cardinality(T)
  BY DEF HoldersIn
<1> HIDE DEF M, T
<1>3. (Cardinality(M) = 0 <=> M = {}) /\ (Cardinality(T) = 0 <=> T = {})
  BY <1>1, FS_EmptySet
<1>4. /\ s \in m => HoldersIn(h, m, s) >= 1
      /\ \A e \in M \cup T : HoldersIn(h, m, s) >= (IF s \in m THEN 1 ELSE 0) + 1
      /\ HoldersIn(h, m, s) = 0 => s \notin m /\ M = {} /\ T = {}
  BY <1>1, <1>2, <1>3
<1> QED
  BY <1>4 DEF M, T

\* An object is of one kind.
LEMMA Kinds ==
    /\ Nothing.kind = "nothing"
    /\ ~Element(Nothing) /\ ~EntryObject(Nothing)
    /\ \A o : ~(Element(o) /\ EntryObject(o))
    /\ \A o : Element(o) => o # Nothing /\ o.kind # "entry" /\ o.kind # "nothing"
    /\ \A o : EntryObject(o) => o # Nothing /\ o.kind = "entry"
<1>1. Nothing.kind = "nothing"
  BY DEF Nothing
<1> QED
  BY <1>1 DEF Element, EntryObject

\* What IncRef and DecRef make of a match or a target.
LEMMA IncRefs ==
    ASSUME NEW heap, NEW x \in DOMAIN heap, Element(heap[x])
    PROVE  /\ DOMAIN IncRef(heap, x) = DOMAIN heap
           /\ Element(IncRef(heap, x)[x])
           /\ IncRef(heap, x)[x].kind = heap[x].kind
           /\ IncRef(heap, x)[x].refs = heap[x].refs + 1
           /\ \A y \in DOMAIN heap : y # x => IncRef(heap, x)[y] = heap[y]
<1> DEFINE o == heap[x]
           new == [o EXCEPT !.refs = @ + 1]
<1>1. IncRef(heap, x)[x] = new
  BY DEF IncRef
<1>2. Element(new) /\ new.kind = o.kind /\ new.refs = o.refs + 1
  BY DEF Element
<1>3. /\ DOMAIN IncRef(heap, x) = DOMAIN heap
      /\ \A y \in DOMAIN heap : y # x => IncRef(heap, x)[y] = heap[y]
  BY DEF IncRef
<1> QED
  BY <1>1, <1>2, <1>3

LEMMA DecRefs ==
    ASSUME NEW heap, NEW x \in DOMAIN heap, Element(heap[x])
    PROVE  /\ DOMAIN DecRef(heap, x) = DOMAIN heap
           /\ heap[x].refs = 1 => DecRef(heap, x)[x] = Nothing
           /\ heap[x].refs # 1 =>
                 /\ Element(DecRef(heap, x)[x])
                 /\ DecRef(heap, x)[x].kind = heap[x].kind
                 /\ DecRef(heap, x)[x].refs = heap[x].refs - 1
           /\ \A y \in DOMAIN heap : y # x => DecRef(heap, x)[y] = heap[y]
<1> DEFINE o == heap[x]
           new == [o EXCEPT !.refs = @ - 1]
<1>1. DecRef(heap, x)[x] = IF o.refs = 1 THEN Nothing ELSE new
  BY DEF DecRef
<1>2. o.refs # 1 => Element(new) /\ new.kind = o.kind /\ new.refs = o.refs - 1
  BY DEF Element
<1>3. /\ DOMAIN DecRef(heap, x) = DOMAIN heap
      /\ \A y \in DOMAIN heap : y # x => DecRef(heap, x)[y] = heap[y]
  BY DEF DecRef
<1> QED
  BY <1>1, <1>2, <1>3

\* A constructor leaves a new object.
LEMMA PlacedKept ==
    ASSUME NEW h, NEW m, Kept(h, m), NEW s \in Slots, h[s] = Nothing, NEW o,
           \/ Element(o)
           \/ EntryObject(o) /\ o.matches = <<>> /\ o.target = None
    PROVE  Kept([h EXCEPT ![s] = o], m \cup {s})
<1> DEFINE h2 == [h EXCEPT ![s] = o]
           m2 == m \cup {s}
<1>1. /\ DOMAIN h2 = Slots /\ h2[s] = o
      /\ \A x \in Slots : x # s => h2[x] = h[x]
  BY DEF Kept, Shaped
<1> HIDE DEF h2
<1>2. o # Nothing
  BY Kinds
<1>3. Shaped(h2) /\ m2 \subseteq Slots /\ \A x \in m2 : h2[x] # Nothing
  BY <1>1, <1>2 DEF Kept, Shaped
<1>4. ASSUME NEW x \in Slots
      PROVE  /\ MatchUsers(h2, x) \subseteq MatchUsers(h, x)
             /\ TargetUsers(h2, x) \subseteq TargetUsers(h, x)
  <2>1. ASSUME NEW e \in Slots
        PROVE  (UsesMatch(h2, e, x) => UsesMatch(h, e, x)) /\ (UsesTarget(h2, e, x) => UsesTarget(h, e, x))
    <3>1. CASE e # s
      BY <1>1, <3>1 DEF UsesMatch, UsesTarget
    <3>2. CASE e = s
      <4>1. ~UsesMatch(h2, e, x)
        BY <1>1, <3>2, Kinds DEF UsesMatch, Contains
      <4>2. ~UsesTarget(h2, e, x)
        BY <1>1, <3>2, Kinds, EntriesAssumption DEF UsesTarget
      <4> QED
        BY <4>1, <4>2
    <3> QED
      BY <3>1, <3>2
  <2> QED
    BY <2>1 DEF MatchUsers, TargetUsers
<1>5. MatchUsers(h, s) = {} /\ TargetUsers(h, s) = {}
  BY Kinds DEF Kept, Referred, MatchUsers, TargetUsers
<1>6. Referred(h2)
  <2> SUFFICES ASSUME NEW e \in Slots, NEW x \in Slots
               PROVE  /\ UsesMatch(h2, e, x) => h2[x].kind = "match"
                      /\ UsesTarget(h2, e, x) => h2[x].kind = "target"
    BY DEF Referred
  <2>1. UsesMatch(h2, e, x) => UsesMatch(h, e, x) /\ x # s
    BY <1>4, <1>5 DEF MatchUsers
  <2>2. UsesTarget(h2, e, x) => UsesTarget(h, e, x) /\ x # s
    BY <1>4, <1>5 DEF TargetUsers
  <2> QED
    BY <1>1, <2>1, <2>2 DEF Kept, Referred
<1>7. Counted(h2, m2)
  <2> SUFFICES ASSUME NEW x \in Slots, Element(h2[x])
               PROVE  h2[x].refs >= HoldersIn(h2, m2, x)
    BY DEF Counted
  <2>1. CASE x = s
    <3>1. MatchUsers(h2, s) = {} /\ TargetUsers(h2, s) = {}
      BY <1>4, <1>5
    <3>2. Cardinality({}) = 0
      BY FS_EmptySet
    <3>3. HoldersIn(h2, m2, s) = 1
      BY <3>1, <3>2 DEF HoldersIn
    <3> QED
      BY <2>1, <3>3 DEF Element
  <2>2. CASE x # s
    <3>1. NoNewHolder(h, m, h2, m2, x)
      BY <1>4, <2>2 DEF NoNewHolder
    <3>2. HoldersIn(h2, m2, x) <= HoldersIn(h, m, x)
      BY <3>1, HoldersFewer
    <3>3. h2[x] = h[x] /\ h[x].refs >= HoldersIn(h, m, x) /\ h[x].refs \in Nat
      BY <1>1, <2>2 DEF Kept, Counted, Element
    <3> QED
      BY <3>2, <3>3, HoldersType
  <2> QED
    BY <2>1, <2>2
<1> QED
  BY <1>3, <1>6, <1>7 DEF Kept, h2

LEMMA KindTells ==
    ASSUME NEW h, NEW m, Kept(h, m), NEW s \in Slots
    PROVE  /\ h[s].kind \in {"match", "target"} <=> Element(h[s])
           /\ h[s].kind = "entry" <=> EntryObject(h[s])
           /\ h[s].kind = "nothing" <=> h[s] = Nothing
           /\ DOMAIN h = Slots
  BY Kinds DEF Kept, Shaped, Element, EntryObject

LEMMA MatchesChanged ==
    ASSUME NEW h, NEW e \in DOMAIN h, EntryObject(h[e]), NEW q \in Seq(Slots), IsInjective(q)
    PROVE  /\ DOMAIN [h EXCEPT ![e].matches = q] = DOMAIN h
           /\ EntryObject([h EXCEPT ![e].matches = q][e])
           /\ [h EXCEPT ![e].matches = q][e].matches = q
           /\ [h EXCEPT ![e].matches = q][e].target = h[e].target
           /\ \A y \in DOMAIN h : y # e => [h EXCEPT ![e].matches = q][y] = h[y]
<1> DEFINE new == [h[e] EXCEPT !.matches = q]
<1>1. /\ EntryObject(new) /\ new.matches = q /\ new.target = h[e].target
  BY DEF EntryObject
<1> QED
  BY <1>1

LEMMA TargetChanged ==
    ASSUME NEW h, NEW e \in DOMAIN h, EntryObject(h[e]), NEW t \in Slots
    PROVE  /\ DOMAIN [h EXCEPT ![e].target = t] = DOMAIN h
           /\ EntryObject([h EXCEPT ![e].target = t][e])
           /\ [h EXCEPT ![e].target = t][e].matches = h[e].matches
           /\ [h EXCEPT ![e].target = t][e].target = t
           /\ \A y \in DOMAIN h : y # e => [h EXCEPT ![e].target = t][y] = h[y]
<1> DEFINE new == [h[e] EXCEPT !.target = t]
<1>1. /\ EntryObject(new) /\ new.matches = h[e].matches /\ new.target = t
  BY DEF EntryObject
<1> QED
  BY <1>1

\* A match is added to an entry.
LEMMA AddedKept ==
    ASSUME NEW h, NEW m, Kept(h, m), NEW e \in Slots, NEW x \in Slots,
           h[e].kind = "entry", h[x].kind = "match", ~Contains(h[e].matches, x)
    PROVE  Kept(IncRef([h EXCEPT ![e].matches = Append(@, x)], x), m)
<1> DEFINE q == Append(h[e].matches, x)
           g == [h EXCEPT ![e].matches = q]
           h2 == IncRef(g, x)
<1>1. Element(h[x]) /\ EntryObject(h[e]) /\ DOMAIN h = Slots /\ e # x
  BY KindTells
<1>2. /\ q \in Seq(Slots) /\ IsInjective(q)
      /\ \A y : Contains(q, y) <=> Contains(h[e].matches, y) \/ y = x
  BY <1>1, AppendedOnce DEF EntryObject
<1> HIDE DEF q
<1>3. /\ DOMAIN g = Slots
      /\ EntryObject(g[e]) /\ g[e].matches = q /\ g[e].target = h[e].target
      /\ \A y \in Slots : y # e => g[y] = h[y]
  BY <1>1, <1>2, MatchesChanged
<1> HIDE DEF g
<1>4. /\ DOMAIN h2 = Slots
      /\ Element(h2[x]) /\ h2[x].kind = "match" /\ h2[x].refs = h[x].refs + 1
      /\ \A y \in Slots : y # x => h2[y] = g[y]
  <2>1. Element(g[x]) /\ g[x] = h[x] /\ x \in DOMAIN g
    BY <1>1, <1>3
  <2> QED
    BY <1>3, <2>1, IncRefs
<1> HIDE DEF h2
<1>5. /\ EntryObject(h2[e]) /\ h2[e].matches = q /\ h2[e].target = h[e].target
      /\ \A y \in Slots : y \notin {e, x} => h2[y] = h[y]
  BY <1>1, <1>3, <1>4
<1>6. Shaped(h2) /\ \A y \in m : h2[y] # Nothing
  BY <1>4, <1>5, Kinds DEF Kept, Shaped
<1>7. ASSUME NEW f \in Slots, NEW y \in Slots
      PROVE  /\ UsesMatch(h2, f, y) <=> UsesMatch(h, f, y) \/ (f = e /\ y = x)
             /\ UsesTarget(h2, f, y) <=> UsesTarget(h, f, y)
  <2>1. CASE f = e
    BY <1>1, <1>2, <1>5, <2>1, Kinds DEF UsesMatch, UsesTarget
  <2>2. CASE f = x
    BY <1>1, <1>4, <2>2, Kinds DEF UsesMatch, UsesTarget
  <2>3. CASE f \notin {e, x}
    BY <1>5, <2>3 DEF UsesMatch, UsesTarget
  <2> QED
    BY <2>1, <2>2, <2>3
<1>8. Referred(h2)
  <2> SUFFICES ASSUME NEW f \in Slots, NEW y \in Slots
               PROVE  /\ UsesMatch(h2, f, y) => h2[y].kind = "match"
                      /\ UsesTarget(h2, f, y) => h2[y].kind = "target"
    BY DEF Referred
  <2>1. h2[y].kind = h[y].kind
    BY <1>1, <1>4, <1>5, Kinds
  <2> QED
    BY <1>7, <2>1 DEF Kept, Referred
<1>9. Counted(h2, m)
  <2> SUFFICES ASSUME NEW y \in Slots, Element(h2[y])
               PROVE  h2[y].refs >= HoldersIn(h2, m, y)
    BY DEF Counted
  <2>1. CASE y = x
    <3>1. /\ MatchUsers(h2, x) \subseteq MatchUsers(h, x) \cup {e}
          /\ TargetUsers(h2, x) \subseteq TargetUsers(h, x)
      BY <1>7 DEF MatchUsers, TargetUsers
    <3>2. HoldersIn(h2, m, x) <= HoldersIn(h, m, x) + 1
      BY <3>1, HoldersOneMore
    <3>3. h[x].refs >= HoldersIn(h, m, x) /\ h[x].refs \in Nat
      BY <1>1 DEF Kept, Counted, Element
    <3> QED
      BY <1>4, <2>1, <3>2, <3>3, HoldersType
  <2>2. CASE y # x
    <3>1. NoNewHolder(h, m, h2, m, y)
      BY <1>7, <2>2 DEF NoNewHolder, MatchUsers, TargetUsers
    <3>2. HoldersIn(h2, m, y) <= HoldersIn(h, m, y)
      BY <3>1, HoldersFewer
    <3>3. y # e
      BY <1>5, Kinds
    <3>4. h2[y] = h[y] /\ h[y].refs >= HoldersIn(h, m, y) /\ h[y].refs \in Nat
      BY <1>5, <2>2, <3>3 DEF Kept, Counted, Element
    <3> QED
      BY <3>2, <3>4, HoldersType
  <2> QED
    BY <2>1, <2>2
<1>10. Kept(h2, m)
  BY <1>6, <1>8, <1>9 DEF Kept
<1> QED
  BY <1>10 DEF h2, g, q

\* A match is removed: the program still has it.
LEMMA RemovedKept ==
    ASSUME NEW h, NEW m, Kept(h, m), NEW e \in Slots, NEW x \in m,
           h[e].kind = "entry", h[x].kind = "match", Contains(h[e].matches, x)
    PROVE  Kept(DecRef([h EXCEPT ![e].matches = RemoveFirst(@, x)], x), m)
<1> DEFINE q == RemoveFirst(h[e].matches, x)
           g == [h EXCEPT ![e].matches = q]
           h2 == DecRef(g, x)
<1>1. x \in Slots
  BY DEF Kept
<1>2. Element(h[x]) /\ EntryObject(h[e]) /\ DOMAIN h = Slots /\ e # x
  BY <1>1, KindTells
<1>3. /\ q \in Seq(Slots) /\ IsInjective(q)
      /\ \A y : Contains(q, y) <=> Contains(h[e].matches, y) /\ y # x
  BY <1>2, RemovedOnce DEF EntryObject
<1> HIDE DEF q
<1>4. /\ DOMAIN g = Slots
      /\ EntryObject(g[e]) /\ g[e].matches = q /\ g[e].target = h[e].target
      /\ \A y \in Slots : y # e => g[y] = h[y]
  BY <1>2, <1>3, MatchesChanged
<1> HIDE DEF g
<1>5. e \in MatchUsers(h, x)
  BY <1>2, Kinds DEF MatchUsers, UsesMatch
<1>6. h[x].refs # 1 /\ h[x].refs >= HoldersIn(h, m, x) /\ h[x].refs \in Nat
  <2>1. h[x].refs >= HoldersIn(h, m, x) /\ h[x].refs \in Nat
    BY <1>1, <1>2 DEF Kept, Counted, Element
  <2>2. HoldersIn(h, m, x) >= 2
    BY <1>5, HoldersAtLeast
  <2> QED
    BY <2>1, <2>2, HoldersType
<1>7. /\ DOMAIN h2 = Slots
      /\ Element(h2[x]) /\ h2[x].kind = "match" /\ h2[x].refs = h[x].refs - 1
      /\ \A y \in Slots : y # x => h2[y] = g[y]
  <2>1. Element(g[x]) /\ g[x] = h[x] /\ x \in DOMAIN g
    BY <1>1, <1>2, <1>4
  <2> QED
    BY <1>4, <1>6, <2>1, DecRefs
<1> HIDE DEF h2
<1>8. /\ EntryObject(h2[e]) /\ h2[e].matches = q /\ h2[e].target = h[e].target
      /\ \A y \in Slots : y \notin {e, x} => h2[y] = h[y]
  BY <1>2, <1>4, <1>7
<1>9. Shaped(h2) /\ \A y \in m : h2[y] # Nothing
  BY <1>7, <1>8, Kinds DEF Kept, Shaped
<1>10. ASSUME NEW f \in Slots, NEW y \in Slots
      PROVE  /\ UsesMatch(h2, f, y) => UsesMatch(h, f, y) /\ ~(f = e /\ y = x)
             /\ UsesTarget(h2, f, y) <=> UsesTarget(h, f, y)
  <2>1. CASE f = e
    BY <1>2, <1>3, <1>8, <2>1, Kinds DEF UsesMatch, UsesTarget
  <2>2. CASE f = x
    BY <1>2, <1>7, <2>2, Kinds DEF UsesMatch, UsesTarget
  <2>3. CASE f \notin {e, x}
    BY <1>8, <2>3 DEF UsesMatch, UsesTarget
  <2> QED
    BY <2>1, <2>2, <2>3
<1>11. Referred(h2)
  <2> SUFFICES ASSUME NEW f \in Slots, NEW y \in Slots
               PROVE  /\ UsesMatch(h2, f, y) => h2[y].kind = "match"
                      /\ UsesTarget(h2, f, y) => h2[y].kind = "target"
    BY DEF Referred
  <2>1. h2[y].kind = h[y].kind
    BY <1>2, <1>7, <1>8, Kinds
  <2> QED
    BY <1>10, <2>1 DEF Kept, Referred
<1>12. Counted(h2, m)
  <2> SUFFICES ASSUME NEW y \in Slots, Element(h2[y])
               PROVE  h2[y].refs >= HoldersIn(h2, m, y)
    BY DEF Counted
  <2>1. NoNewHolder(h, m, h2, m, y)
    BY <1>10 DEF NoNewHolder, MatchUsers, TargetUsers
  <2>2. CASE y = x
    <3>1. e \in MatchUsers(h, y) \ MatchUsers(h2, y)
      BY <1>10, <1>5, <2>2 DEF MatchUsers
    <3>2. HoldersIn(h2, m, y) < HoldersIn(h, m, y)
      BY <2>1, <3>1, HoldersFewer
    <3> QED
      BY <1>7, <1>6, <2>2, <3>2, HoldersType
  <2>3. CASE y # x
    <3>2. HoldersIn(h2, m, y) <= HoldersIn(h, m, y)
      BY <2>1, HoldersFewer
    <3>3. y # e
      BY <1>8, Kinds
    <3>4. h2[y] = h[y] /\ h[y].refs >= HoldersIn(h, m, y) /\ h[y].refs \in Nat
      BY <1>8, <2>3, <3>3 DEF Kept, Counted, Element
    <3> QED
      BY <3>2, <3>4, HoldersType
  <2> QED
    BY <2>2, <2>3
<1>13. Kept(h2, m)
  BY <1>9, <1>11, <1>12 DEF Kept
<1> QED
  BY <1>13 DEF h2, g, q

\* An entry gets another target, or the one it has.
LEMMA ReplacedKept ==
    ASSUME NEW h, NEW m, Kept(h, m), NEW e \in Slots, NEW t \in m,
           h[e].kind = "entry", h[t].kind = "target",
           NEW heap,
           heap = IF h[e].target = None THEN h ELSE DecRef(h, h[e].target)
    PROVE  Kept(IncRef([heap EXCEPT ![e].target = t], t), m)
<1> DEFINE old == h[e].target
           g == [heap EXCEPT ![e].target = t]
           h2 == IncRef(g, t)
<1>1. /\ t \in Slots /\ e # t /\ DOMAIN h = Slots
      /\ Element(h[t]) /\ EntryObject(h[e])
      /\ old = None \/ old \in Slots
  BY KindTells DEF Kept, EntryObject
<1> DEFINE had == old # None
<1>2. had => /\ old \in Slots /\ Element(h[old]) /\ h[old].kind = "target"
             /\ e \in TargetUsers(h, old) /\ old # e
  <2> SUFFICES ASSUME had
               PROVE  /\ old \in Slots /\ Element(h[old]) /\ h[old].kind = "target"
                      /\ e \in TargetUsers(h, old) /\ old # e
    OBVIOUS
  <2>1. old \in Slots /\ UsesTarget(h, e, old)
    BY <1>1, Kinds DEF UsesTarget
  <2>2. h[old].kind = "target"
    BY <2>1 DEF Kept, Referred
  <2> QED
    BY <2>1, <2>2, KindTells DEF TargetUsers
<1>3. \A y \in Slots : Element(h[y]) => h[y].refs \in Nat /\ h[y].refs >= HoldersIn(h, m, y)
  BY DEF Kept, Counted, Element
<1>4. had /\ old = t => h[t].refs # 1
  <2> SUFFICES ASSUME had, old = t PROVE h[t].refs # 1
    OBVIOUS
  <2>1. HoldersIn(h, m, t) >= 2
    BY <1>2, HoldersAtLeast
  <2> QED
    BY <1>1, <1>3, <2>1, HoldersType
<1>5. /\ DOMAIN heap = Slots
      /\ \A y \in Slots : ~(had /\ y = old) => heap[y] = h[y]
      /\ had /\ h[old].refs = 1 => heap[old] = Nothing
      /\ had /\ h[old].refs # 1 =>
            Element(heap[old]) /\ heap[old].kind = "target" /\ heap[old].refs = h[old].refs - 1
  <2>1. CASE ~had
    BY <1>1, <2>1
  <2>2. CASE had
    <3>1. heap = DecRef(h, old)
      BY <2>2
    <3>2. old \in DOMAIN h /\ Element(h[old]) /\ h[old].kind = "target"
      BY <1>1, <1>2, <2>2
    <3> HIDE DEF old
    <3> QED
      BY <1>1, <2>2, <3>1, <3>2, DecRefs
  <2> QED
    BY <2>1, <2>2
<1> HIDE DEF old
<1>6. /\ DOMAIN g = Slots
      /\ EntryObject(g[e]) /\ g[e].matches = h[e].matches /\ g[e].target = t
      /\ \A y \in Slots : y # e => g[y] = heap[y]
  <2>1. heap[e] = h[e]
    BY <1>2, <1>5
  <2> QED
    BY <1>1, <1>5, <2>1, TargetChanged
<1> HIDE DEF g
<1>7. Element(heap[t]) /\ heap[t].kind = "target"
      /\ heap[t].refs = IF had /\ t = old THEN h[t].refs - 1 ELSE h[t].refs
  BY <1>1, <1>4, <1>5
<1>8. /\ DOMAIN h2 = Slots
      /\ Element(h2[t]) /\ h2[t].kind = "target"
      /\ h2[t].refs = IF had /\ t = old THEN h[t].refs ELSE h[t].refs + 1
      /\ \A y \in Slots : y # t => h2[y] = g[y]
  <2>1. Element(g[t]) /\ g[t] = heap[t] /\ t \in DOMAIN g
    BY <1>1, <1>6, <1>7
  <2>2. /\ DOMAIN h2 = Slots
        /\ Element(h2[t]) /\ h2[t].kind = "target" /\ h2[t].refs = heap[t].refs + 1
        /\ \A y \in Slots : y # t => h2[y] = g[y]
    BY <1>6, <1>7, <2>1, IncRefs
  <2>3. h[t].refs \in Nat
    BY <1>1 DEF Element
  <2> HIDE DEF h2
  <2> QED
    BY <1>7, <2>2, <2>3
<1> HIDE DEF h2
<1>9. /\ EntryObject(h2[e]) /\ h2[e].matches = h[e].matches /\ h2[e].target = t
      /\ \A y \in Slots : y \notin {e, t} => h2[y] = heap[y]
  BY <1>1, <1>6, <1>8
<1>10. ASSUME NEW f \in Slots, NEW y \in Slots
       PROVE  /\ UsesMatch(h2, f, y) <=> UsesMatch(h, f, y)
              /\ UsesTarget(h2, f, y) <=> IF f = e THEN y = t ELSE UsesTarget(h, f, y)
  <2>1. CASE f = e
    BY <1>1, <1>9, <2>1, Kinds DEF UsesMatch, UsesTarget
  <2>2. CASE f = t
    BY <1>1, <1>8, <2>2, Kinds DEF UsesMatch, UsesTarget
  <2>3. CASE f \notin {e, t} /\ had /\ f = old
    <3>1. h2[f].kind # "entry" /\ h[f].kind # "entry"
      BY <1>2, <1>5, <1>9, <2>3, Kinds
    <3> QED
      BY <2>3, <3>1 DEF UsesMatch, UsesTarget
  <2>4. CASE f \notin {e, t} /\ ~(had /\ f = old)
    <3>1. h2[f] = h[f]
      BY <1>5, <1>9, <2>4
    <3> QED
      BY <2>4, <3>1 DEF UsesMatch, UsesTarget
  <2> QED
    BY <2>1, <2>2, <2>3, <2>4
<1>11. ASSUME had, old # t
       PROVE  HoldersIn(h2, m, old) < HoldersIn(h, m, old)
  <2>1. NoNewHolder(h, m, h2, m, old)
    BY <1>2, <1>10, <1>11 DEF NoNewHolder, MatchUsers, TargetUsers
  <2>2. e \in TargetUsers(h, old) \ TargetUsers(h2, old)
    BY <1>2, <1>10, <1>11 DEF TargetUsers
  <2> QED
    BY <2>1, <2>2, HoldersFewer
<1>12. ASSUME had, old # t, h[old].refs = 1
       PROVE  old \notin m /\ MatchUsers(h2, old) = {} /\ TargetUsers(h2, old) = {}
  <2>1. HoldersIn(h2, m, old) = 0
    BY <1>2, <1>3, <1>11, <1>12, HoldersType
  <2> QED
    BY <2>1, HoldersAtLeast
<1>13. ASSUME NEW y \in Slots
       PROVE  \/ h2[y].kind = h[y].kind
              \/ had /\ y = old /\ old # t /\ h[old].refs = 1
  BY <1>1, <1>2, <1>5, <1>8, <1>9, Kinds
<1>14. Shaped(h2)
  <2> SUFFICES ASSUME NEW y \in Slots
               PROVE  h2[y] = Nothing \/ Element(h2[y]) \/ EntryObject(h2[y])
    BY <1>8 DEF Shaped
  <2>1. y = e \/ y = t \/ y \notin {e, t}
    OBVIOUS
  <2> QED
    BY <1>5, <1>8, <1>9, <2>1 DEF Kept, Shaped
<1>15. \A y \in m : h2[y] # Nothing
  <2> SUFFICES ASSUME NEW y \in m PROVE h2[y] # Nothing
    OBVIOUS
  <2>1. y \in Slots /\ h[y] # Nothing
    BY DEF Kept
  <2>2. h2[y].kind = h[y].kind
    BY <1>12, <1>13, <2>1
  <2> QED
    BY <2>1, <2>2, Kinds, KindTells
<1>16. Referred(h2)
  <2> SUFFICES ASSUME NEW f \in Slots, NEW y \in Slots
               PROVE  /\ UsesMatch(h2, f, y) => h2[y].kind = "match"
                      /\ UsesTarget(h2, f, y) => h2[y].kind = "target"
    BY DEF Referred
  <2>1. UsesMatch(h2, f, y) \/ UsesTarget(h2, f, y) => h2[y].kind = h[y].kind
    BY <1>12, <1>13 DEF MatchUsers, TargetUsers
  <2>2. UsesTarget(h2, f, y) => y = t \/ UsesTarget(h, f, y)
    BY <1>10
  <2> QED
    BY <1>8, <1>10, <2>1, <2>2 DEF Kept, Referred
<1>17. Counted(h2, m)
  <2> SUFFICES ASSUME NEW y \in Slots, Element(h2[y])
               PROVE  h2[y].refs >= HoldersIn(h2, m, y)
    BY DEF Counted
  <2>1. CASE y = t /\ ~(had /\ t = old)
    <3>1. /\ MatchUsers(h2, t) \subseteq MatchUsers(h, t)
          /\ TargetUsers(h2, t) \subseteq TargetUsers(h, t) \cup {e}
      BY <1>1, <1>10 DEF MatchUsers, TargetUsers
    <3>2. HoldersIn(h2, m, t) <= HoldersIn(h, m, t) + 1
      BY <3>1, HoldersOneMore
    <3> QED
      BY <1>1, <1>3, <1>8, <2>1, <3>2, HoldersType
  <2>2. CASE had /\ y = old /\ y # t
    <3>1. HoldersIn(h2, m, y) < HoldersIn(h, m, y)
      BY <1>11, <2>2
    <3>2. h2[y] = heap[y] /\ h2[y].refs = h[y].refs - 1
      BY <1>2, <1>5, <1>9, <2>2, Kinds
    <3> QED
      BY <1>2, <1>3, <2>2, <3>1, <3>2, HoldersType
  <2>3. CASE ~(y = t /\ ~(had /\ t = old)) /\ ~(had /\ y = old /\ y # t)
    <3>1. NoNewHolder(h, m, h2, m, y)
      <4>1. e \in TargetUsers(h, y) \/ y # t
        BY <1>2, <2>3
      <4> QED
        BY <1>10, <4>1 DEF NoNewHolder, MatchUsers, TargetUsers
    <3>2. HoldersIn(h2, m, y) <= HoldersIn(h, m, y)
      BY <3>1, HoldersFewer
    <3>3. y # e
      BY <1>9, Kinds
    <3>4. h2[y].refs = h[y].refs /\ Element(h[y])
      BY <1>1, <1>5, <1>8, <1>9, <2>3, <3>3
    <3> QED
      BY <1>3, <3>2, <3>4, HoldersType
  <2> QED
    BY <2>1, <2>2, <2>3
<1>18. Kept(h2, m)
  BY <1>14, <1>15, <1>16, <1>17 DEF Kept
<1> QED
  BY <1>18 DEF h2, g

\* The heap in which the slots q has at the places s have become what D says.
Touched(h, q, D, s) ==
    IF s = {} THEN h
    ELSE [x \in Slots |-> IF \E i \in s : q[i] = x THEN D[x] ELSE h[x]]

\* The heap with o in slot y.
Put(h, y, o) == [x \in Slots |-> IF x = y THEN o ELSE h[x]]

\* If no slot is in q twice, the last place changes a slot that is still as in h.
LEMMA TouchedLast ==
    ASSUME NEW h, DOMAIN h = Slots, NEW q \in Seq(Slots), IsInjective(q), NEW D,
           NEW s \in SUBSET (1..Len(q)), s # {}
    PROVE  /\ Max(s) \in 1..Len(q)
           /\ q[Max(s)] \in Slots
           /\ DOMAIN Touched(h, q, D, s \ {Max(s)}) = Slots
           /\ Touched(h, q, D, s \ {Max(s)})[q[Max(s)]] = h[q[Max(s)]]
           /\ Touched(h, q, D, s) =
                 Put(Touched(h, q, D, s \ {Max(s)}), q[Max(s)], D[q[Max(s)]])
<1> DEFINE k == Max(s)
           p == s \ {k}
           T == Touched(h, q, D, p)
<1>1. Len(q) \in Nat
  OBVIOUS
<1>2. k \in s
  BY <1>1, Greatest
<1> HIDE DEF k
<1>3. k \in 1..Len(q) /\ q[k] \in Slots
  BY <1>2
<1>4. DOMAIN T = Slots /\ \A x \in Slots : T[x] = IF \E i \in p : q[i] = x THEN D[x] ELSE h[x]
  BY DEF Touched
<1>5. ~\E i \in p : q[i] = q[k]
  BY <1>2, <1>3 DEF IsInjective
<1>6. \A x \in Slots : (\E i \in s : q[i] = x) <=> (x = q[k] \/ \E i \in p : q[i] = x)
  BY <1>2
<1>7. T[q[k]] = h[q[k]]
  BY <1>3, <1>4, <1>5
<1>8. Touched(h, q, D, s) = Put(T, q[k], D[q[k]])
  <2>1. Touched(h, q, D, s) = [x \in Slots |-> IF \E i \in s : q[i] = x THEN D[x] ELSE h[x]]
    BY DEF Touched
  <2>2. ASSUME NEW x \in Slots
        PROVE  (IF \E i \in s : q[i] = x THEN D[x] ELSE h[x]) = IF x = q[k] THEN D[q[k]] ELSE T[x]
    BY <1>4, <1>6
  <2> HIDE DEF T
  <2> QED
    BY <2>1, <2>2 DEF Put
<1> QED
  BY <1>3, <1>4, <1>7, <1>8 DEF k, p

LEMMA DecRefIs ==
    ASSUME NEW h, NEW heap, DOMAIN h = Slots, DOMAIN heap = Slots,
           NEW y \in Slots, heap[y] = h[y]
    PROVE  DecRef(heap, y) = Put(heap, y, DecRef(h, y)[y])
  BY DEF DecRef, Put

LEMMA IncRefIs ==
    ASSUME NEW h, NEW heap, DOMAIN h = Slots, DOMAIN heap = Slots,
           NEW y \in Slots, heap[y] = h[y]
    PROVE  IncRef(heap, y) = Put(heap, y, IncRef(h, y)[y])
  BY DEF IncRef, Put

\* DecRef is called for each slot of q: each is different, so each of them is
\* what DecRef makes of it alone.
LEMMA DecRefAll ==
    ASSUME NEW h, DOMAIN h = Slots, NEW q \in Seq(Slots), IsInjective(q)
    PROVE  /\ DOMAIN FoldLeft(DecRef, h, q) = Slots
           /\ \A x \in Slots :
                 FoldLeft(DecRef, h, q)[x] = IF Contains(q, x) THEN DecRef(h, x)[x] ELSE h[x]
<1> DEFINE n == Len(q)
           D == [x \in Slots |-> DecRef(h, x)[x]]
           G(s) == Touched(h, q, D, s)
           Unfold(f, s) == IF s = {} THEN h ELSE DecRef(f[s \ {Max(s)}], q[Max(s)])
           iter == CHOOSE iter : iter = [s \in SUBSET DOMAIN q |-> Unfold(iter, s)]
           g == [s \in SUBSET (1..n) |-> G(s)]
<1>1. FoldLeft(DecRef, h, q) = iter[1..n] /\ n \in Nat /\ DOMAIN q = 1..n
  BY DEF FoldLeft, MapThenFoldSet
<1>2. ASSUME NEW s \in SUBSET (1..n), s # {}
      PROVE  G(s) = DecRef(G(s \ {Max(s)}), q[Max(s)])
  <2> DEFINE y == q[Max(s)]
             T == G(s \ {Max(s)})
  <2> HIDE DEF D
  <2>1. /\ y \in Slots /\ DOMAIN T = Slots /\ T[y] = h[y]
        /\ G(s) = Put(T, y, D[y])
    BY <1>2, TouchedLast
  <2> HIDE DEF y, T, G
  <2>2. DecRef(T, y) = Put(T, y, DecRef(h, y)[y])
    BY <2>1, DecRefIs
  <2>3. D[y] = DecRef(h, y)[y]
    BY <2>1 DEF D
  <2>4. G(s) = DecRef(T, y)
    BY <2>1, <2>2, <2>3
  <2> QED
    BY <2>4 DEF T, y
<1>3. G({}) = h
  BY DEF Touched
<1> HIDE DEF G, n, D
<1>4. iter = [s \in SUBSET (1..n) |-> Unfold(iter, s)]
  <2>1. ASSUME NEW s \in SUBSET (1..n) PROVE g[s] = Unfold(g, s)
    <3>1. s \ {Max(s)} \in SUBSET (1..n)
      OBVIOUS
    <3> QED
      BY <1>2, <1>3, <3>1
  <2> HIDE DEF Unfold
  <2>2. g = [s \in SUBSET (1..n) |-> Unfold(g, s)]
    BY <2>1
  <2> HIDE DEF g
  <2> QED
    BY <1>1, <2>2
<1> HIDE DEF iter
<1>5. ASSUME NEW i \in 0..n PROVE iter[1..i] = G(1..i)
  <2> DEFINE Wrong == {j \in 0..n : iter[1..j] # G(1..j)}
  <2> SUFFICES ASSUME Wrong # {} PROVE FALSE
    OBVIOUS
  <2>1. Wrong \subseteq Nat
    BY <1>1
  <2> HIDE DEF Wrong
  <2>2. PICK j \in Wrong : \A l \in Wrong : j <= l
    BY <2>1, Smallest
  <2>3. j \in 0..n /\ iter[1..j] # G(1..j)
    BY <2>2 DEF Wrong
  <2>4. 1..j \in SUBSET (1..n)
    BY <1>1, <2>3
  <2>5. CASE j = 0
    <3>1. 1..j = {}
      BY <2>5
    <3> QED
      BY <1>3, <1>4, <2>3, <2>4, <3>1
  <2>6. CASE j # 0
    <3>1. j \in Nat /\ j - 1 \in 0..n /\ j - 1 \notin Wrong
      <4>1. j \in Nat /\ ~(j <= j - 1) /\ j - 1 \in 0..n
        BY <1>1, <2>3, <2>6
      <4> QED
        BY <2>2, <4>1
    <3>2. iter[1..(j - 1)] = G(1..(j - 1))
      BY <3>1 DEF Wrong
    <3>3. 1..j # {} /\ Max(1..j) = j /\ (1..j) \ {j} = 1..(j - 1)
      BY <2>6, <3>1, FirstNumbers
    <3>4. iter[1..j] = DecRef(iter[1..(j - 1)], q[j])
      BY <1>4, <2>4, <3>3
    <3>5. G(1..j) = DecRef(G(1..(j - 1)), q[j])
      BY <1>2, <2>4, <3>3
    <3> QED
      BY <2>3, <3>2, <3>4, <3>5
  <2> QED
    BY <2>5, <2>6
<1>6. FoldLeft(DecRef, h, q) = Touched(h, q, D, 1..n)
  <2>1. n \in 0..n
    BY <1>1
  <2> QED
    BY <1>1, <1>5, <2>1 DEF G
<1>7. \A x \in Slots : Contains(q, x) <=> \E i \in 1..n : q[i] = x
  BY DEF Contains, n
<1>8. CASE 1..n = {}
  <2>1. FoldLeft(DecRef, h, q) = h /\ \A x \in Slots : ~Contains(q, x)
    BY <1>6, <1>7, <1>8 DEF Touched
  <2> QED
    BY <2>1
<1>9. CASE 1..n # {}
  <2>1. FoldLeft(DecRef, h, q) =
           [x \in Slots |-> IF \E i \in 1..n : q[i] = x THEN D[x] ELSE h[x]]
    BY <1>6, <1>9 DEF Touched
  <2> QED
    BY <1>7, <2>1 DEF D
<1> QED
  BY <1>8, <1>9

LEMMA IncRefTwice ==
    ASSUME NEW h, NEW heap, DOMAIN h = Slots, DOMAIN heap = Slots,
           NEW y \in Slots, heap[y] = h[y]
    PROVE  IncRef(IncRef(heap, y), y) = Put(heap, y, IncRef(IncRef(h, y), y)[y])
<1> DEFINE v == IncRef(h, y)[y]
           w == IncRef(IncRef(h, y), y)[y]
<1>1. IncRef(heap, y) = Put(heap, y, v) /\ IncRef(h, y) = Put(h, y, v)
  BY IncRefIs
<1>2. /\ DOMAIN IncRef(heap, y) = Slots /\ DOMAIN IncRef(h, y) = Slots
      /\ IncRef(heap, y)[y] = v /\ IncRef(h, y)[y] = v
  <2> HIDE DEF v
  <2> QED
    BY <1>1 DEF Put
<1>3. IncRef(IncRef(heap, y), y) = Put(IncRef(heap, y), y, w)
  <2> DEFINE heap1 == IncRef(heap, y)
             h1 == IncRef(h, y)
  <2>1. DOMAIN heap1 = Slots /\ DOMAIN h1 = Slots /\ heap1[y] = h1[y]
    BY <1>2
  <2> HIDE DEF heap1, h1
  <2>2. IncRef(heap1, y) = Put(heap1, y, IncRef(h1, y)[y])
    BY <2>1, IncRefIs
  <2> QED
    BY <2>2 DEF heap1, h1
<1> HIDE DEF v, w
<1>4. Put(Put(heap, y, v), y, w) = Put(heap, y, w)
  BY DEF Put
<1> QED
  BY <1>1, <1>3, <1>4 DEF w

\* What Generate does to the heap for the matches q.
Twice(h, q) == FoldLeft(LAMBDA heap, m : IncRef(IncRef(heap, m), m), h, q)

\* Each match of q gets two references more.
LEMMA IncRefAll ==
    ASSUME NEW h, DOMAIN h = Slots, NEW q \in Seq(Slots), IsInjective(q)
    PROVE  /\ DOMAIN Twice(h, q) = Slots
           /\ \A x \in Slots :
                 Twice(h, q)[x] = IF Contains(q, x) THEN IncRef(IncRef(h, x), x)[x] ELSE h[x]
<1> DEFINE n == Len(q)
           D == [x \in Slots |-> IncRef(IncRef(h, x), x)[x]]
           G(s) == Touched(h, q, D, s)
           Unfold(f, s) == IF s = {} THEN h ELSE IncRef(IncRef(f[s \ {Max(s)}], q[Max(s)]), q[Max(s)])
           iter == CHOOSE iter : iter = [s \in SUBSET DOMAIN q |-> Unfold(iter, s)]
           g == [s \in SUBSET (1..n) |-> G(s)]
<1>1. Twice(h, q) = iter[1..n] /\ n \in Nat /\ DOMAIN q = 1..n
  BY DEF Twice, FoldLeft, MapThenFoldSet
<1>2. ASSUME NEW s \in SUBSET (1..n), s # {}
      PROVE  G(s) = IncRef(IncRef(G(s \ {Max(s)}), q[Max(s)]), q[Max(s)])
  <2> DEFINE y == q[Max(s)]
             T == G(s \ {Max(s)})
  <2> HIDE DEF D
  <2>1. /\ y \in Slots /\ DOMAIN T = Slots /\ T[y] = h[y]
        /\ G(s) = Put(T, y, D[y])
    BY <1>2, TouchedLast
  <2> HIDE DEF y, T, G
  <2>2. IncRef(IncRef(T, y), y) = Put(T, y, IncRef(IncRef(h, y), y)[y])
    BY <2>1, IncRefTwice
  <2>3. D[y] = IncRef(IncRef(h, y), y)[y]
    BY <2>1 DEF D
  <2>4. G(s) = IncRef(IncRef(T, y), y)
    BY <2>1, <2>2, <2>3
  <2> QED
    BY <2>4 DEF T, y
<1>3. G({}) = h
  BY DEF Touched
<1> HIDE DEF G, n, D
<1>4. iter = [s \in SUBSET (1..n) |-> Unfold(iter, s)]
  <2>1. ASSUME NEW s \in SUBSET (1..n) PROVE g[s] = Unfold(g, s)
    <3>1. s \ {Max(s)} \in SUBSET (1..n)
      OBVIOUS
    <3> QED
      BY <1>2, <1>3, <3>1
  <2> HIDE DEF Unfold
  <2>2. g = [s \in SUBSET (1..n) |-> Unfold(g, s)]
    BY <2>1
  <2> HIDE DEF g
  <2> QED
    BY <1>1, <2>2
<1> HIDE DEF iter
<1>5. ASSUME NEW i \in 0..n PROVE iter[1..i] = G(1..i)
  <2> DEFINE Wrong == {j \in 0..n : iter[1..j] # G(1..j)}
  <2> SUFFICES ASSUME Wrong # {} PROVE FALSE
    OBVIOUS
  <2>1. Wrong \subseteq Nat
    BY <1>1
  <2> HIDE DEF Wrong
  <2>2. PICK j \in Wrong : \A l \in Wrong : j <= l
    BY <2>1, Smallest
  <2>3. j \in 0..n /\ iter[1..j] # G(1..j)
    BY <2>2 DEF Wrong
  <2>4. 1..j \in SUBSET (1..n)
    BY <1>1, <2>3
  <2>5. CASE j = 0
    <3>1. 1..j = {}
      BY <2>5
    <3> QED
      BY <1>3, <1>4, <2>3, <2>4, <3>1
  <2>6. CASE j # 0
    <3>1. j \in Nat /\ j - 1 \in 0..n /\ j - 1 \notin Wrong
      <4>1. j \in Nat /\ ~(j <= j - 1) /\ j - 1 \in 0..n
        BY <1>1, <2>3, <2>6
      <4> QED
        BY <2>2, <4>1
    <3>2. iter[1..(j - 1)] = G(1..(j - 1))
      BY <3>1 DEF Wrong
    <3>3. 1..j # {} /\ Max(1..j) = j /\ (1..j) \ {j} = 1..(j - 1)
      BY <2>6, <3>1, FirstNumbers
    <3>4. iter[1..j] = IncRef(IncRef(iter[1..(j - 1)], q[j]), q[j])
      BY <1>4, <2>4, <3>3
    <3>5. G(1..j) = IncRef(IncRef(G(1..(j - 1)), q[j]), q[j])
      BY <1>2, <2>4, <3>3
    <3> QED
      BY <2>3, <3>2, <3>4, <3>5
  <2> QED
    BY <2>5, <2>6
<1>6. Twice(h, q) = Touched(h, q, D, 1..n)
  <2>1. n \in 0..n
    BY <1>1
  <2> QED
    BY <1>1, <1>5, <2>1 DEF G
<1>7. \A x \in Slots : Contains(q, x) <=> \E i \in 1..n : q[i] = x
  BY DEF Contains, n
<1>8. CASE 1..n = {}
  <2>1. Twice(h, q) = h /\ \A x \in Slots : ~Contains(q, x)
    BY <1>6, <1>7, <1>8 DEF Touched
  <2> QED
    BY <2>1
<1>9. CASE 1..n # {}
  <2>1. Twice(h, q) =
           [x \in Slots |-> IF \E i \in 1..n : q[i] = x THEN D[x] ELSE h[x]]
    BY <1>6, <1>9 DEF Touched
  <2> QED
    BY <1>7, <2>1 DEF D
<1> QED
  BY <1>8, <1>9

\* The program forgets a match or a target.
LEMMA ForgottenKept ==
    ASSUME NEW h, NEW m, Kept(h, m), NEW s \in m, Element(h[s])
    PROVE  Kept(DecRef(h, s), m \ {s})
<1> DEFINE h2 == DecRef(h, s)
           m2 == m \ {s}
<1>1. s \in Slots /\ DOMAIN h = Slots /\ m2 \subseteq Slots
  BY DEF Kept, Shaped
<1>2. h[s].refs \in Nat /\ h[s].refs >= HoldersIn(h, m, s)
  BY <1>1 DEF Kept, Counted, Element
<1>3. /\ DOMAIN h2 = Slots
      /\ h[s].refs = 1 => h2[s] = Nothing
      /\ h[s].refs # 1 =>
            Element(h2[s]) /\ h2[s].kind = h[s].kind /\ h2[s].refs = h[s].refs - 1
      /\ \A y \in Slots : y # s => h2[y] = h[y]
  BY <1>1, DecRefs
<1> HIDE DEF h2
<1>4. h2[s].kind # "entry" /\ h[s].kind # "entry"
  BY <1>3, Kinds DEF Element
<1>5. ASSUME NEW f \in Slots, NEW y \in Slots
      PROVE  /\ UsesMatch(h2, f, y) <=> UsesMatch(h, f, y)
             /\ UsesTarget(h2, f, y) <=> UsesTarget(h, f, y)
  BY <1>3, <1>4 DEF UsesMatch, UsesTarget
<1>6. ASSUME NEW y \in Slots PROVE NoNewHolder(h, m, h2, m2, y)
  BY <1>5 DEF NoNewHolder, MatchUsers, TargetUsers
<1>7. HoldersIn(h2, m2, s) < HoldersIn(h, m, s)
  BY <1>1, <1>6, HoldersFewer
<1>8. ASSUME h[s].refs = 1
      PROVE  MatchUsers(h2, s) = {} /\ TargetUsers(h2, s) = {}
  <2>1. HoldersIn(h2, m2, s) = 0
    BY <1>2, <1>7, <1>8, HoldersType
  <2> QED
    BY <2>1, HoldersAtLeast
<1>9. Shaped(h2) /\ \A y \in m2 : h2[y] # Nothing
  BY <1>1, <1>3 DEF Kept, Shaped
<1>10. Referred(h2)
  <2> SUFFICES ASSUME NEW f \in Slots, NEW y \in Slots
               PROVE  /\ UsesMatch(h2, f, y) => h2[y].kind = "match"
                      /\ UsesTarget(h2, f, y) => h2[y].kind = "target"
    BY DEF Referred
  <2>1. UsesMatch(h2, f, y) \/ UsesTarget(h2, f, y) => h2[y].kind = h[y].kind
    BY <1>3, <1>8 DEF MatchUsers, TargetUsers
  <2> QED
    BY <1>5, <2>1 DEF Kept, Referred
<1>11. Counted(h2, m2)
  <2> SUFFICES ASSUME NEW y \in Slots, Element(h2[y])
               PROVE  h2[y].refs >= HoldersIn(h2, m2, y)
    BY DEF Counted
  <2>1. CASE y = s
    BY <1>2, <1>3, <1>7, <2>1, HoldersType, Kinds
  <2>2. CASE y # s
    <3>1. HoldersIn(h2, m2, y) <= HoldersIn(h, m, y)
      BY <1>6, HoldersFewer
    <3>2. h2[y] = h[y] /\ h[y].refs >= HoldersIn(h, m, y) /\ h[y].refs \in Nat
      BY <1>3, <2>2 DEF Kept, Counted, Element
    <3> QED
      BY <3>1, <3>2, HoldersType
  <2> QED
    BY <2>1, <2>2
<1>12. Kept(h2, m2)
  BY <1>1, <1>9, <1>10, <1>11 DEF Kept
<1> QED
  BY <1>12 DEF h2

\* The heap after DecRef was called for each slot of q.
Dropped(h, q) == FoldLeft(DecRef, h, q)

LEMMA DroppedIs ==
    ASSUME NEW h, DOMAIN h = Slots, NEW q \in Seq(Slots), IsInjective(q)
    PROVE  /\ DOMAIN Dropped(h, q) = Slots
           /\ \A x \in Slots :
                 Dropped(h, q)[x] = IF Contains(q, x) THEN DecRef(h, x)[x] ELSE h[x]
  BY DecRefAll DEF Dropped

\* The matches and the target of an entry.
UsedBy(h, e) ==
    h[e].matches \o (IF h[e].target = None THEN <<>> ELSE <<h[e].target>>)

LEMMA UsedOnce ==
    ASSUME NEW h, NEW m, Kept(h, m), NEW e \in Slots, EntryObject(h[e])
    PROVE  /\ UsedBy(h, e) \in Seq(Slots) /\ IsInjective(UsedBy(h, e))
           /\ \A x \in Slots :
                 Contains(UsedBy(h, e), x) <=> UsesMatch(h, e, x) \/ UsesTarget(h, e, x)
<1> DEFINE q == UsedBy(h, e)
<1>1. /\ h[e].kind = "entry" /\ h[e].matches \in Seq(Slots) /\ IsInjective(h[e].matches)
      /\ h[e].target \in Slots \cup {None}
  BY DEF EntryObject
<1>2. CASE h[e].target = None
  <2>1. q = h[e].matches
    BY <1>1, <1>2 DEF UsedBy
  <2>2. \A x \in Slots : ~UsesTarget(h, e, x)
    BY <1>2, EntriesAssumption DEF UsesTarget
  <2> HIDE DEF q
  <2> QED
    BY <1>1, <2>1, <2>2 DEF UsesMatch, q
<1>3. CASE h[e].target # None
  <2> DEFINE t == h[e].target
  <2>1. t \in Slots /\ q = Append(h[e].matches, t)
    BY <1>1, <1>3 DEF UsedBy
  <2> HIDE DEF q
  <2>2. UsesTarget(h, e, t)
    BY <1>1 DEF UsesTarget
  <2>3. ~Contains(h[e].matches, t)
    <3>1. UsesMatch(h, e, t) => h[t].kind = "match"
      BY <2>1 DEF Kept, Referred
    <3>2. h[t].kind = "target"
      BY <2>1, <2>2 DEF Kept, Referred
    <3> QED
      BY <1>1, <3>1, <3>2 DEF UsesMatch
  <2>4. /\ q \in Seq(Slots) /\ IsInjective(q)
        /\ \A x : Contains(q, x) <=> Contains(h[e].matches, x) \/ x = t
    BY <1>1, <2>1, <2>3, AppendedOnce
  <2> QED
    BY <1>1, <2>4 DEF UsesMatch, UsesTarget, q
<1> QED
  BY <1>2, <1>3

\* What becomes of the heap when an entry is freed: its matches and its target
\* lose one reference each.
LEMMA EntryFreed ==
    ASSUME NEW h, NEW m, Kept(h, m), NEW e \in Slots, EntryObject(h[e]), NEW h2, h2 = FreeEntry(h, e)
    PROVE  /\ DOMAIN h2 = Slots
           /\ h2[e] = Nothing
           /\ \A x \in Slots :
                 /\ ~UsesMatch(h, e, x) /\ ~UsesTarget(h, e, x) /\ x # e => h2[x] = h[x]
                 /\ UsesMatch(h, e, x) \/ UsesTarget(h, e, x) =>
                       /\ Element(h[x])
                       /\ h[x].refs = 1 => h2[x] = Nothing
                       /\ h[x].refs # 1 => /\ Element(h2[x]) /\ h2[x].kind = h[x].kind
                                           /\ h2[x].refs = h[x].refs - 1
<1> DEFINE heap == [h EXCEPT ![e] = Nothing]
           q == UsedBy(h, e)
<1>1. h2 = Dropped(heap, q)
  BY DEF FreeEntry, Dropped, UsedBy
<1>2. DOMAIN heap = Slots /\ heap[e] = Nothing /\ \A x \in Slots : x # e => heap[x] = h[x]
  BY DEF Kept, Shaped
<1> HIDE DEF heap
<1>3. ASSUME NEW x \in Slots, UsesMatch(h, e, x) \/ UsesTarget(h, e, x)
      PROVE  Element(h[x]) /\ x # e
  <2>1. h[x].kind \in {"match", "target"}
    BY <1>3 DEF Kept, Referred
  <2> QED
    BY <2>1, Kinds, KindTells
<1>4. /\ q \in Seq(Slots) /\ IsInjective(q)
      /\ \A x \in Slots : Contains(q, x) <=> UsesMatch(h, e, x) \/ UsesTarget(h, e, x)
  BY UsedOnce
<1> HIDE DEF q
<1>5. /\ DOMAIN h2 = Slots
      /\ \A x \in Slots : h2[x] = IF Contains(q, x) THEN DecRef(heap, x)[x] ELSE heap[x]
  BY <1>1, <1>2, <1>4, DroppedIs
<1>6. h2[e] = Nothing
  BY <1>2, <1>3, <1>4, <1>5
<1>7. ASSUME NEW x \in Slots, UsesMatch(h, e, x) \/ UsesTarget(h, e, x)
      PROVE  /\ Element(h[x])
             /\ h[x].refs = 1 => h2[x] = Nothing
             /\ h[x].refs # 1 => /\ Element(h2[x]) /\ h2[x].kind = h[x].kind
                                 /\ h2[x].refs = h[x].refs - 1
  <2>1. Element(h[x]) /\ heap[x] = h[x] /\ x \in DOMAIN heap
    BY <1>2, <1>3, <1>7
  <2>2. h2[x] = DecRef(heap, x)[x]
    BY <1>4, <1>5, <1>7
  <2> QED
    BY <2>1, <2>2, DecRefs
<1>8. ASSUME NEW x \in Slots, ~UsesMatch(h, e, x), ~UsesTarget(h, e, x), x # e
      PROVE  h2[x] = h[x]
  BY <1>2, <1>4, <1>5, <1>8
<1> QED
  BY <1>5, <1>6, <1>7, <1>8

\* The program forgets an entry.
LEMMA FreedKept ==
    ASSUME NEW h, NEW m, Kept(h, m), NEW e \in m, EntryObject(h[e])
    PROVE  Kept(FreeEntry(h, e), m \ {e})
<1> DEFINE h2 == FreeEntry(h, e)
           m2 == m \ {e}
           Loses(x) == UsesMatch(h, e, x) \/ UsesTarget(h, e, x)
<1>1. e \in Slots /\ DOMAIN h = Slots /\ m2 \subseteq Slots /\ h[e].kind = "entry"
  BY Kinds DEF Kept, Shaped
<1>2. \A x \in Slots : Element(h[x]) => h[x].refs \in Nat /\ h[x].refs >= HoldersIn(h, m, x)
  BY DEF Kept, Counted, Element
<1>3. /\ DOMAIN h2 = Slots
      /\ h2[e] = Nothing
      /\ \A x \in Slots :
            /\ ~Loses(x) /\ x # e => h2[x] = h[x]
            /\ Loses(x) => /\ Element(h[x])
                           /\ h[x].refs = 1 => h2[x] = Nothing
                           /\ h[x].refs # 1 => /\ Element(h2[x]) /\ h2[x].kind = h[x].kind
                                               /\ h2[x].refs = h[x].refs - 1
  <2> HIDE DEF h2
  <2>1. h2 = FreeEntry(h, e)
    BY DEF h2
  <2> QED
    BY <1>1, <2>1, EntryFreed
<1> HIDE DEF h2
<1>4. ASSUME NEW x \in Slots, Loses(x) PROVE x # e
  BY <1>1, <1>3, <1>4, Kinds
<1> HIDE DEF Loses
<1>5. ASSUME NEW f \in Slots, NEW y \in Slots
      PROVE  /\ UsesMatch(h2, f, y) <=> f # e /\ UsesMatch(h, f, y)
             /\ UsesTarget(h2, f, y) <=> f # e /\ UsesTarget(h, f, y)
  <2>1. CASE f = e
    BY <1>3, <2>1, Kinds DEF UsesMatch, UsesTarget
  <2>2. CASE f # e /\ Loses(f)
    <3>1. h2[f].kind # "entry" /\ h[f].kind # "entry"
      BY <1>3, <2>2, Kinds
    <3> QED
      BY <3>1 DEF UsesMatch, UsesTarget
  <2>3. CASE f # e /\ ~Loses(f)
    BY <1>3, <2>3 DEF UsesMatch, UsesTarget
  <2> QED
    BY <2>1, <2>2, <2>3
<1>6. ASSUME NEW y \in Slots PROVE NoNewHolder(h, m, h2, m2, y)
  BY <1>5 DEF NoNewHolder, MatchUsers, TargetUsers
<1>7. ASSUME NEW y \in Slots, Loses(y)
      PROVE  HoldersIn(h2, m2, y) < HoldersIn(h, m, y)
  <2>1. \/ e \in MatchUsers(h, y) \ MatchUsers(h2, y)
        \/ e \in TargetUsers(h, y) \ TargetUsers(h2, y)
    BY <1>1, <1>5, <1>7 DEF MatchUsers, TargetUsers, Loses
  <2> QED
    BY <1>6, <2>1, HoldersFewer
<1>8. ASSUME NEW y \in Slots, Loses(y), h[y].refs = 1
      PROVE  y \notin m2 /\ MatchUsers(h2, y) = {} /\ TargetUsers(h2, y) = {}
  <2>1. HoldersIn(h2, m2, y) = 0
    <3>1. HoldersIn(h2, m2, y) < HoldersIn(h, m, y)
      BY <1>7, <1>8
    <3>2. 1 >= HoldersIn(h, m, y)
      BY <1>2, <1>3, <1>8
    <3>3. HoldersIn(h2, m2, y) \in Nat /\ HoldersIn(h, m, y) \in Nat
      BY HoldersType
    <3> QED
      BY <3>1, <3>2, <3>3
  <2> QED
    BY <2>1, HoldersAtLeast
<1>9. Shaped(h2)
  BY <1>3 DEF Kept, Shaped
<1>10. \A y \in m2 : h2[y] # Nothing
  <2> SUFFICES ASSUME NEW y \in m2 PROVE h2[y] # Nothing
    OBVIOUS
  <2>1. y \in Slots /\ y # e /\ h[y] # Nothing
    BY DEF Kept
  <2>2. CASE Loses(y)
    BY <1>3, <1>8, <2>1, <2>2, Kinds
  <2>3. CASE ~Loses(y)
    BY <1>3, <2>1, <2>3
  <2> QED
    BY <2>2, <2>3
<1>11. Referred(h2)
  <2> SUFFICES ASSUME NEW f \in Slots, NEW y \in Slots
               PROVE  /\ UsesMatch(h2, f, y) => h2[y].kind = "match"
                      /\ UsesTarget(h2, f, y) => h2[y].kind = "target"
    BY DEF Referred
  <2>1. UsesMatch(h, f, y) \/ UsesTarget(h, f, y) => y # e
    BY <1>1 DEF Kept, Referred
  <2>2. UsesMatch(h2, f, y) \/ UsesTarget(h2, f, y) => h2[y].kind = h[y].kind
    BY <1>3, <1>5, <1>8, <2>1 DEF MatchUsers, TargetUsers
  <2> QED
    BY <1>5, <2>2 DEF Kept, Referred
<1>12. Counted(h2, m2)
  <2> SUFFICES ASSUME NEW y \in Slots, Element(h2[y])
               PROVE  h2[y].refs >= HoldersIn(h2, m2, y)
    BY DEF Counted
  <2>1. y # e
    BY <1>3, Kinds
  <2>2. CASE Loses(y)
    <3>1. HoldersIn(h2, m2, y) < HoldersIn(h, m, y)
      BY <1>7, <2>2
    <3>2. h[y].refs >= HoldersIn(h, m, y) /\ h[y].refs \in Nat
      BY <1>2, <1>3, <2>2
    <3>3. h2[y].refs = h[y].refs - 1
      BY <1>3, <2>2, Kinds
    <3>4. HoldersIn(h2, m2, y) \in Nat /\ HoldersIn(h, m, y) \in Nat
      BY HoldersType
    <3> QED
      BY <3>1, <3>2, <3>3, <3>4
  <2>3. CASE ~Loses(y)
    <3>1. HoldersIn(h2, m2, y) <= HoldersIn(h, m, y)
      BY <1>6, HoldersFewer
    <3>2. h2[y] = h[y]
      BY <1>3, <2>1, <2>3
    <3> QED
      BY <1>2, <3>1, <3>2, HoldersType
  <2> QED
    BY <2>2, <2>3
<1>13. Kept(h2, m2)
  BY <1>1, <1>9, <1>10, <1>11, <1>12 DEF Kept
<1> QED
  BY <1>13 DEF h2

\* An entry is generated: nobody gives back what its matches get.
LEMMA GeneratedKept ==
    ASSUME NEW h, NEW m, Kept(h, m), NEW e \in Slots, EntryObject(h[e])
    PROVE  Kept(Twice(h, h[e].matches), m)
<1> DEFINE q == h[e].matches
           h2 == Twice(h, q)
<1>1. DOMAIN h = Slots /\ q \in Seq(Slots) /\ IsInjective(q) /\ h[e].kind = "entry"
  BY DEF Kept, Shaped, EntryObject
<1>2. ASSUME NEW x \in Slots, Contains(q, x) PROVE Element(h[x])
  <2>1. h[x].kind = "match"
    BY <1>1, <1>2 DEF Kept, Referred, UsesMatch
  <2> QED
    BY <2>1, KindTells
<1>3. /\ DOMAIN h2 = Slots
      /\ \A x \in Slots :
            h2[x] = IF Contains(q, x) THEN IncRef(IncRef(h, x), x)[x] ELSE h[x]
  <2> HIDE DEF q
  <2> QED
    BY <1>1, IncRefAll
<1> HIDE DEF h2
<1>4. ASSUME NEW x \in Slots
      PROVE  \/ h2[x] = h[x]
             \/ /\ Element(h[x]) /\ Element(h2[x]) /\ h2[x].kind = h[x].kind
                /\ h2[x].refs = h[x].refs + 2
  <2>1. CASE Contains(q, x)
    <3> DEFINE h1 == IncRef(h, x)
    <3>1. Element(h[x])
      BY <1>2, <2>1
    <3>2. /\ DOMAIN h1 = DOMAIN h /\ Element(h1[x]) /\ h1[x].kind = h[x].kind
          /\ h1[x].refs = h[x].refs + 1
      BY <1>1, <3>1, IncRefs
    <3>3. h2[x] = IncRef(h1, x)[x]
      BY <1>3, <2>1
    <3> HIDE DEF h1
    <3>4. /\ Element(h2[x]) /\ h2[x].kind = h1[x].kind /\ h2[x].refs = h1[x].refs + 1
      BY <1>1, <3>2, <3>3, IncRefs
    <3>5. h[x].refs \in Nat
      BY <3>1 DEF Element
    <3> QED
      BY <3>1, <3>2, <3>4, <3>5
  <2>2. CASE ~Contains(q, x)
    BY <1>3, <2>2
  <2> QED
    BY <2>1, <2>2
<1>5. ASSUME NEW f \in Slots, NEW y \in Slots
      PROVE  /\ UsesMatch(h2, f, y) <=> UsesMatch(h, f, y)
             /\ UsesTarget(h2, f, y) <=> UsesTarget(h, f, y)
  <2>1. CASE h2[f] = h[f]
    BY <2>1 DEF UsesMatch, UsesTarget
  <2>2. CASE Element(h[f]) /\ Element(h2[f])
    BY <2>2, Kinds DEF UsesMatch, UsesTarget
  <2> QED
    BY <1>4, <2>1, <2>2
<1>6. \A y \in Slots : h2[y].kind = h[y].kind
  BY <1>4
<1>7. Shaped(h2) /\ \A y \in m : h2[y] # Nothing
  BY <1>3, <1>4, Kinds DEF Kept, Shaped
<1>8. Referred(h2)
  BY <1>5, <1>6 DEF Kept, Referred
<1>9. Counted(h2, m)
  <2> SUFFICES ASSUME NEW y \in Slots, Element(h2[y])
               PROVE  h2[y].refs >= HoldersIn(h2, m, y)
    BY DEF Counted
  <2>1. NoNewHolder(h, m, h2, m, y)
    BY <1>5 DEF NoNewHolder, MatchUsers, TargetUsers
  <2>2. HoldersIn(h2, m, y) <= HoldersIn(h, m, y)
    BY <2>1, HoldersFewer
  <2>3. Element(h[y]) /\ h[y].refs >= HoldersIn(h, m, y) /\ h[y].refs \in Nat
    BY <1>4 DEF Kept, Counted, Element
  <2> QED
    BY <1>4, <2>2, <2>3, HoldersType
<1>10. Kept(h2, m)
  BY <1>7, <1>8, <1>9 DEF Kept
<1> QED
  BY <1>10 DEF h2

LEMMA EmptyKept ==
    ASSUME NEW h, h = [s \in Slots |-> Nothing]
    PROVE  Kept(h, {})
<1>1. DOMAIN h = Slots /\ \A s \in Slots : h[s] = Nothing
  OBVIOUS
<1> QED
  BY <1>1, Kinds DEF Kept, Shaped, Referred, Counted, UsesMatch, UsesTarget

\* A constructor.
LEMMA ConstructedKept ==
    ASSUME Kept(object, mine), NEW s \in Free, NEW c, NEW reported, NEW raised, NEW o,
           NEW n, NEW r, Constructs(s, c, reported, raised, o, n, r),
           \/ o = Nothing /\ raised = TRUE
           \/ Element(o)
           \/ EntryObject(o) /\ o.matches = <<>> /\ o.target = None
    PROVE  Kept(object', mine')
<1>1. s \in Slots /\ object[s] = Nothing
  BY KindTells DEF Free, Is
<1>2. CASE object' = [x \in Slots |-> Nothing] /\ mine' = {}
  BY <1>2, EmptyKept
<1>3. CASE UNCHANGED <<object, mine>>
  BY <1>3
<1>4. CASE ~raised /\ object' = [object EXCEPT ![s] = o] /\ mine' = mine \cup {s}
  BY <1>1, <1>4, PlacedKept
<1> QED
  BY <1>2, <1>3, <1>4 DEF Constructs, Dies

LEMMA MatchMadeKept ==
    ASSUME Kept(object, mine), NEW s \in Free, NEW c \in MatchCalls, NewMatch(s, c)
    PROVE  Kept(object', mine')
<1>1. CASE FindMatch(registry, c.name) = {}
  BY <1>1, ConstructedKept DEF NewMatch
<1>2. CASE FindMatch(registry, c.name) # {}
  <2> DEFINE x == CHOOSE y \in FindMatch(registry, c.name) : TRUE
             at == Structure(c.name, s)
             p == Parse(x, CopiedFlags(c.name), error, c.args)
             filled == [struct EXCEPT ![at] = [data |-> p.data, flags |-> p.flags]]
             o == [kind |-> "match", call |-> c, at |-> at, refs |-> 1]
  <2>1. Constructs(s, c, p.reported, p.raised, o, filled, IF at = s THEN struct ELSE filled)
    BY <1>2 DEF NewMatch
  <2>2. Element(o)
    BY DEF Element
  <2> HIDE DEF o, filled, p, at
  <2> QED
    BY <2>1, <2>2, ConstructedKept
<1> QED
  BY <1>1, <1>2

LEMMA TargetMadeKept ==
    ASSUME Kept(object, mine), NEW s \in Free, NEW c \in TargetCalls, NEW isChain \in BOOLEAN,
           NewTarget(s, c, isChain)
    PROVE  Kept(object', mine')
<1> DEFINE name == IF isChain THEN "standard" ELSE c.name
           found == FindTarget(registry, name)
           asked == [is |-> "target", name |-> name, args |-> c.args]
<1>1. CASE found = {}
  <2>1. Constructs(s, asked, FALSE, TRUE, Nothing, struct, struct)
    BY <1>1 DEF NewTarget
  <2> HIDE DEF asked
  <2> QED
    BY <2>1, ConstructedKept
<1>2. CASE found # {}
  <2> DEFINE x == CHOOSE y \in found : TRUE
             p == Parse(x, {}, error, c.args)
             o == [kind |-> "target", call |-> c, extension |-> x, data |-> p.data, refs |-> 1]
  <2>1. Constructs(s, asked, p.reported, p.raised, o, struct, struct)
    BY <1>2 DEF NewTarget
  <2>2. Element(o)
    BY DEF Element
  <2> HIDE DEF o, p, asked
  <2> QED
    BY <2>1, <2>2, ConstructedKept
<1> QED
  BY <1>1, <1>2

LEMMA EntryMadeKept ==
    ASSUME Kept(object, mine), NEW s \in Free, NEW c \in EntryCalls, NewEntry(s, c)
    PROVE  Kept(object', mine')
<1> DEFINE from == Address(c.source)
           to == Address(c.destination)
           parsed == from.n = 1 /\ to.n = 1 /\ c.interface # None
           reported == \/ from.error
                       \/ from.n = 1 /\ to.error
                       \/ parsed /\ TooLong(c.interface)
           raised == from.n # 1 \/ to.n # 1 \/ (parsed /\ (error \/ reported))
           o == [kind |-> "entry", call |-> c, matches |-> <<>>, target |-> None,
                 address |-> <<from.address, to.address>>, mask |-> <<from.mask, to.mask>>,
                 interface |-> [name |-> c.interface, mask |-> InterfaceMask(c.interface)]]
<1>1. Constructs(s, c, reported, raised, o, struct, struct)
  BY DEF NewEntry
<1>2. EntryObject(o) /\ o.matches = <<>> /\ o.target = None
  BY DEF EntryObject, IsInjective
<1> HIDE DEF o, raised, reported
<1> QED
  BY <1>1, <1>2, ConstructedKept

\* The program changes, generates or forgets what it has.
LEMMA ChangedKept ==
    ASSUME Kept(object, mine),
           \/ \E e \in Mine("entry"), x \in Mine("match") : AddMatch(e, x) \/ RemoveMatch(e, x)
           \/ \E e \in Mine("entry"), t \in Mine("target") : SetTarget(e, t)
           \/ \E e \in Mine("entry") : Generate(e)
           \/ \E s \in mine : Forget(s)
    PROVE  Kept(object', mine')
<1>1. mine \subseteq Slots
  BY DEF Kept
<1>2. ASSUME NEW e \in Mine("entry"), NEW x \in Mine("match"), AddMatch(e, x)
      PROVE  Kept(object', mine')
  <2>1. /\ object' = IncRef([object EXCEPT ![e].matches = Append(@, x)], x)
        /\ mine' = mine /\ ~Contains(object[e].matches, x)
        /\ e \in Slots /\ x \in Slots /\ object[e].kind = "entry" /\ object[x].kind = "match"
    BY <1>1, <1>2 DEF AddMatch, Returns, Mine, Is
  <2> QED
    BY <2>1, AddedKept
<1>3. ASSUME NEW e \in Mine("entry"), NEW x \in Mine("match"), RemoveMatch(e, x)
      PROVE  Kept(object', mine')
  <2>1. /\ object' = DecRef([object EXCEPT ![e].matches = RemoveFirst(@, x)], x)
        /\ mine' = mine /\ Contains(object[e].matches, x)
        /\ e \in Slots /\ x \in mine /\ object[e].kind = "entry" /\ object[x].kind = "match"
    BY <1>1, <1>3 DEF RemoveMatch, Returns, Mine, Is
  <2> QED
    BY <2>1, RemovedKept
<1>4. ASSUME NEW e \in Mine("entry"), NEW t \in Mine("target"), SetTarget(e, t)
      PROVE  Kept(object', mine')
  <2> DEFINE old == object[e].target
             heap == IF old = None THEN object ELSE DecRef(object, old)
  <2>1. /\ object' = IncRef([heap EXCEPT ![e].target = t], t)
        /\ mine' = mine
        /\ e \in Slots /\ t \in mine /\ object[e].kind = "entry" /\ object[t].kind = "target"
    BY <1>1, <1>4 DEF SetTarget, Returns, Mine, Is
  <2>2. heap = IF object[e].target = None THEN object ELSE DecRef(object, object[e].target)
    OBVIOUS
  <2> HIDE DEF heap
  <2>3. Kept(IncRef([heap EXCEPT ![e].target = t], t), mine)
    BY <2>1, <2>2, ReplacedKept
  <2> QED
    BY <2>1, <2>3
<1>5. ASSUME NEW e \in Mine("entry"), Generate(e)
      PROVE  Kept(object', mine')
  <2>1. /\ object' = Twice(object, object[e].matches)
        /\ mine' = mine
        /\ e \in Slots /\ object[e].kind = "entry"
    BY <1>1, <1>5 DEF Generate, Twice, Mine, Is
  <2> QED
    BY <2>1, GeneratedKept, KindTells
<1>6. ASSUME NEW s \in mine, Forget(s)
      PROVE  Kept(object', mine')
  <2>1. /\ mine' = mine \ {s}
        /\ object' = IF object[s].kind = "entry" THEN FreeEntry(object, s) ELSE DecRef(object, s)
    BY <1>6 DEF Forget
  <2>2. s \in Slots /\ object[s] # Nothing
    BY DEF Kept
  <2>3. EntryObject(object[s]) \/ Element(object[s])
    BY <2>2 DEF Kept, Shaped
  <2> QED
    BY <2>1, <2>3, FreedKept, ForgottenKept, Kinds
<1> QED
  BY <1>2, <1>3, <1>4, <1>5, <1>6

LEMMA InitKept == Init => Kept(object, mine)
  BY EmptyKept DEF Init, Imported

LEMMA NextKept == Kept(object, mine) /\ [Next]_vars => Kept(object', mine')
<1> SUFFICES ASSUME Kept(object, mine), [Next]_vars PROVE Kept(object', mine')
  OBVIOUS
<1>1. CASE UNCHANGED vars
  BY <1>1 DEF vars
<1>2. CASE Next
  <2>1. ASSUME NEW s \in Free, NEW c \in MatchCalls, NewMatch(s, c) PROVE Kept(object', mine')
    BY <2>1, MatchMadeKept
  <2>2. ASSUME NEW s \in Free, NEW c \in TargetCalls, NEW isChain \in BOOLEAN,
               NewTarget(s, c, isChain)
        PROVE  Kept(object', mine')
    BY <2>2, TargetMadeKept
  <2>3. ASSUME NEW s \in Free, NEW c \in EntryCalls, NewEntry(s, c) PROVE Kept(object', mine')
    BY <2>3, EntryMadeKept
  <2> QED
    BY <1>2, <2>1, <2>2, <2>3, ChangedKept DEF Next
<1> QED
  BY <1>1, <1>2

LEMMA KeptNeverFreed == Kept(object, mine) => NeverFreedInUse
<1> SUFFICES ASSUME Kept(object, mine), NEW s \in Slots
             PROVE  /\ Holders(s) > 0 => ~Is(s, "nothing")
                    /\ Is(s, "match") \/ Is(s, "target") => object[s].refs >= Holders(s)
  BY DEF NeverFreedInUse
<1>1. Holders(s) = HoldersIn(object, mine, s)
  BY DEF Holders, HoldersIn, MatchUsers, TargetUsers, UsesMatch, UsesTarget, Is
<1>2. Is(s, "match") \/ Is(s, "target") => object[s].refs >= Holders(s)
  BY <1>1, KindTells DEF Is, Kept, Counted
<1>3. ASSUME Is(s, "nothing") PROVE ~(Holders(s) > 0)
  <2>1. object[s] = Nothing /\ object[s].kind = "nothing"
    BY <1>3, KindTells DEF Is
  <2>2. s \notin mine
    BY <2>1 DEF Kept
  <2>3. MatchUsers(object, s) = {} /\ TargetUsers(object, s) = {}
    BY <2>1 DEF Kept, Referred, MatchUsers, TargetUsers
  <2>4. Cardinality({}) = 0
    BY FS_EmptySet
  <2>5. HoldersIn(object, mine, s) = 0
    BY <2>2, <2>3, <2>4 DEF HoldersIn
  <2> QED
    BY <1>1, <2>5
<1> QED
  BY <1>2, <1>3

\* No match and no target is freed while an entry or the program refers to it,
\* in whatever order they are added, replaced, removed, generated and forgotten
\* (Py_INCREF and Py_DECREF in py_ipt_entry_add_match, remove_match,
\* set_target, generate and dealloc).
THEOREM NeverFreedCorrect == Spec => []NeverFreedInUse
<1>1. Init => Kept(object, mine)
  BY InitKept
<1>2. Kept(object, mine) /\ [Next]_vars => Kept(object, mine)'
  BY NextKept
<1>3. Kept(object, mine) => NeverFreedInUse
  BY KeptNeverFreed
<1> QED
  BY <1>1, <1>2, <1>3, PTL DEF Spec

\* Only generating an entry counts.
LEMMA SentBounded ==
    ASSUME sent \in 0..MaxSent, [Next]_vars
    PROVE  sent' \in 0..MaxSent
<1>1. ASSUME NEW s, NEW c, NEW reported, NEW raised, NEW o, NEW m, NEW r,
             Constructs(s, c, reported, raised, o, m, r)
      PROVE  sent' = sent
  BY <1>1 DEF Constructs, Dies
<1>2. ASSUME NEW s, NEW c, NewMatch(s, c) PROVE sent' = sent
  BY <1>1, <1>2 DEF NewMatch
<1>3. ASSUME NEW s, NEW c, NEW isChain, NewTarget(s, c, isChain) PROVE sent' = sent
  BY <1>1, <1>3 DEF NewTarget
<1>4. ASSUME NEW s, NEW c, NewEntry(s, c) PROVE sent' = sent
  BY <1>1, <1>4 DEF NewEntry
<1>5. ASSUME NEW e, NEW x, AddMatch(e, x) \/ RemoveMatch(e, x) \/ SetTarget(e, x) \/ Forget(e)
      PROVE  sent' = sent
  BY <1>5 DEF AddMatch, RemoveMatch, SetTarget, Returns, Forget
<1>6. ASSUME NEW e, Generate(e) PROVE sent' \in 0..MaxSent
  <2>1. sent < MaxSent /\ sent' = sent + 1
    BY <1>6 DEF Generate
  <2> QED
    BY <2>1, EntriesAssumption
<1>7. CASE Next
  BY <1>2, <1>3, <1>4, <1>5, <1>6, <1>7 DEF Next
<1> QED
  BY <1>7 DEF vars

\* Every variable has its type in every state: a slot has nothing, a match, a
\* target or an entry in it, the program refers to slots only, and what is
\* registered was built in (pyipt-match.c, pyipt-target.c, pyipt-entry.c).
THEOREM TypeCorrect == Spec => []TypeOK
<1> DEFINE Inv == /\ Kept(object, mine)
                  /\ kernel \in Kernels /\ registry = Registry(kernel)
                  /\ error \in BOOLEAN /\ sent \in 0..MaxSent
<1>1. Init => Inv
  <2> SUFFICES ASSUME Init PROVE Inv
    OBVIOUS
  <2>1. Kept(object, mine)
    BY InitKept
  <2>2. kernel \in Kernels /\ registry = Registry(kernel) /\ error = FALSE /\ sent = 0
    BY DEF Init, Imported
  <2>3. error \in BOOLEAN
    BY <2>2
  <2>4. MaxSent \in Nat
    BY EntriesAssumption, Zenon
  <2>5. sent \in 0..MaxSent
    BY <2>2, <2>4
  <2> QED
    BY <2>1, <2>2, <2>3, <2>5
<1>2. Inv /\ [Next]_vars => Inv'
  BY NextKept, RegistryStays, ErrorIsBoolean, SentBounded
<1>3. Inv => TypeOK
  <2> SUFFICES ASSUME Inv PROVE TypeOK
    OBVIOUS
  <2>1. registry \subseteq Range(Builtin)
    BY RegistryBest DEF BestOf
  <2>2. DOMAIN object = Slots /\ mine \subseteq Slots
    BY DEF Kept, Shaped
  <2>3. \A s \in Slots : object[s].kind \in {"nothing", "match", "target", "entry"}
    BY Kinds DEF Kept, Shaped, Element
  <2> QED
    BY <2>1, <2>2, <2>3 DEF TypeOK
<1> QED
  BY <1>1, <1>2, <1>3, PTL DEF Spec

-----------------------------------------------------------------------------
(* The kernel's walk over an entry.                                        *)

\* The sum of sizes that a fold over elements gives, element by element.
Summing(f, q) ==
    /\ f[0] = EntrySize
    /\ \A i \in 1..Len(q) : f[i] = f[i - 1] + q[i].size
    /\ Behind(q) = f[Len(q)]

\* The fold over the sizes of elements has such a sequence of sums.
LEMMA Sums ==
    ASSUME NEW S, NEW q \in Seq(S),
           \A i \in 1..Len(q) : q[i].size \in Nat
    PROVE  \E f \in [0..Len(q) -> Nat] : Summing(f, q)
<1> DEFINE n == Len(q)
           A == Nat
           Unfold(g, s) == IF s = {} THEN EntrySize ELSE g[s \ {Max(s)}] + q[Max(s)].size
           iter == CHOOSE iter : iter = [s \in SUBSET DOMAIN q |-> Unfold(iter, s)]
           step == [p \in (1..n) \X A |-> p[2] + q[p[1]].size]
<1>1. n \in Nat /\ DOMAIN q = 1..n
  OBVIOUS
<1>2. Behind(q) = iter[DOMAIN q]
  BY DEF Behind, FoldLeft, MapThenFoldSet
<1>3. step \in [(1..n) \X A -> A]
  <2>1. ASSUME NEW p \in (1..n) \X A PROVE p[2] + q[p[1]].size \in A
    <3>1. p[1] \in 1..n /\ p[2] \in Nat /\ q[p[1]].size \in Nat
      OBVIOUS
    <3> QED
      BY <3>1
  <2> QED
    BY <2>1
<1> HIDE DEF n
<1>4. PICK g : Folding(g, n, A, EntrySize, step)
  <2> HIDE DEF step
  <2>1. EntrySize \in A
    BY DEF EntrySize
  <2> HIDE DEF A
  <2> QED
    BY <1>1, <1>3, <2>1, FoldExists
<1>5. ASSUME NEW s \in SUBSET (1..n) PROVE g[s] = Unfold(g, s)
  <2> HIDE DEF A
  <2> QED
    BY <1>4 DEF Folding
<1> HIDE DEF Unfold
<1>6. iter = [s \in SUBSET (1..n) |-> Unfold(iter, s)]
  <2>1. g = [s \in SUBSET (1..n) |-> Unfold(g, s)]
    <3>1. g \in [SUBSET (1..n) -> A]
      BY <1>4 DEF Folding
    <3> HIDE DEF A
    <3> QED
      BY <1>5, <3>1
  <2> QED
    BY <1>1, <2>1
<1> HIDE DEF iter
<1> DEFINE f == [i \in 0..n |-> iter[1..i]]
<1>7. ASSUME NEW i \in 1..n PROVE f[i] = f[i - 1] + q[i].size
  <2>1. i \in Nat /\ i # 0 /\ 1..i \in SUBSET (1..n) /\ i - 1 \in 0..n
    BY <1>1
  <2>2. 1..i # {} /\ Max(1..i) = i /\ (1..i) \ {i} = 1..(i - 1)
    BY <2>1, FirstNumbers
  <2>3. iter[1..i] = Unfold(iter, 1..i)
    BY <1>6, <2>1
  <2>4. Unfold(iter, 1..i) = iter[1..(i - 1)] + q[i].size
    BY <2>2 DEF Unfold
  <2> QED
    BY <2>1, <2>3, <2>4
<1>8. f[0] = EntrySize
  <2>1. 1..0 = {} /\ {} \in SUBSET (1..n)
    OBVIOUS
  <2> QED
    BY <1>1, <1>6, <2>1 DEF Unfold
<1>9. Behind(q) = f[n]
  BY <1>1, <1>2
<1>10. f \in [0..n -> Nat]
  <2> DEFINE Wrong == {i \in 0..n : f[i] \notin Nat}
  <2>1. Wrong = {}
    <3> SUFFICES ASSUME Wrong # {} PROVE FALSE
      OBVIOUS
    <3>1. PICK i \in Wrong : \A j \in Wrong : i <= j
      <4>1. Wrong \subseteq Nat
        BY <1>1
      <4> HIDE DEF Wrong
      <4> QED
        BY <4>1, Smallest
    <3>2. i \in 0..n /\ f[i] \notin Nat
      BY <3>1
    <3> HIDE DEF f
    <3>3. i # 0
      <4>1. EntrySize \in Nat
        BY DEF EntrySize
      <4> QED
        BY <1>8, <3>2, <4>1
    <3>4. i \in 1..n /\ i - 1 \in 0..n /\ i - 1 \notin Wrong
      <4>1. i \in 1..n /\ i - 1 \in 0..n /\ ~(i <= i - 1)
        BY <1>1, <3>2, <3>3
      <4> HIDE DEF Wrong
      <4> QED
        BY <3>1, <4>1
    <3>5. f[i - 1] \in Nat /\ q[i].size \in Nat
      BY <3>4 DEF n
    <3> QED
      BY <1>7, <3>2, <3>4, <3>5
  <2> QED
    BY <2>1
<1> HIDE DEF f
<1>11. Summing(f, q)
  BY <1>7, <1>8, <1>9 DEF Summing, n
<1> QED
  BY <1>10, <1>11 DEF n

\* The fold over the elements before the i-th is the i-th of these sums.
LEMMA SumsBefore ==
    ASSUME NEW S, NEW q \in Seq(S),
           \A i \in 1..Len(q) : q[i].size \in Nat,
           NEW f \in [0..Len(q) -> Nat], Summing(f, q),
           NEW k \in 0..Len(q)
    PROVE  Behind(SubSeq(q, 1, k)) = f[k]
<1> DEFINE r == SubSeq(q, 1, k)
<1>1. r \in Seq(S) /\ Len(r) = k /\ \A i \in 1..k : r[i] = q[i]
  OBVIOUS
<1>2. k \in Nat /\ k <= Len(q) /\ Len(q) \in Nat
  OBVIOUS
<1> HIDE DEF r
<1>3. \A i \in 1..Len(r) : r[i].size \in Nat
  BY <1>1, <1>2
<1>4. PICK g \in [0..Len(r) -> Nat] : Summing(g, r)
  BY <1>1, <1>3, Sums
<1> DEFINE Wrong == {i \in 0..k : g[i] # f[i]}
<1>5. Wrong = {}
  <2> SUFFICES ASSUME Wrong # {} PROVE FALSE
    OBVIOUS
  <2>1. PICK i \in Wrong : \A j \in Wrong : i <= j
    <3>1. Wrong \subseteq Nat
      BY <1>2
    <3> HIDE DEF Wrong
    <3> QED
      BY <3>1, Smallest
  <2>2. i \in 0..k /\ g[i] # f[i]
    BY <2>1
  <2>3. i # 0
    BY <1>4, <2>2 DEF Summing
  <2>4. i \in 1..k /\ i - 1 \in 0..k /\ i - 1 \notin Wrong
    <3>1. i \in 1..k /\ i - 1 \in 0..k /\ ~(i <= i - 1)
      BY <1>2, <2>2, <2>3
    <3> HIDE DEF Wrong
    <3> QED
      BY <2>1, <3>1
  <2>5. g[i - 1] = f[i - 1]
    BY <2>4
  <2>6. g[i] = g[i - 1] + r[i].size
    BY <1>1, <1>4, <2>4 DEF Summing
  <2>7. f[i] = f[i - 1] + q[i].size
    <3>1. i \in 1..Len(q)
      BY <1>2, <2>4
    <3> QED
      BY <3>1 DEF Summing
  <2> QED
    BY <1>1, <2>2, <2>4, <2>5, <2>6, <2>7
<1>6. g[k] = f[k]
  BY <1>2, <1>5
<1> QED
  BY <1>1, <1>4, <1>6 DEF Summing, r

\* A block with the elements of M and behind them T, as the kernel wants it.
LaidOut(g, M, T) ==
    /\ g.elements = Elements(Append(M, T))
    /\ g.target_offset = Behind(M)
    /\ g.next_offset = g.target_offset + T.size

\* The element i of such a block is at f[i - 1], and no other is.
Offsets(f, g, M, T) ==
    /\ f[0] = EntrySize /\ f[Len(M)] = g.target_offset
    /\ f[Len(M) + 1] = g.next_offset
    /\ \A i \in 1..Len(M) : f[i] = f[i - 1] + M[i].size
    /\ \A i, j \in 0..(Len(M) + 1) : i < j => f[i] < f[j]
    /\ \A i \in 1..(Len(M) + 1) :
          {x \in g.elements : x.at = f[i - 1]} =
              {[at |-> f[i - 1], element |-> Append(M, T)[i]]}
    /\ \A x \in g.elements : \E i \in 1..(Len(M) + 1) : x.at = f[i - 1]

\* There are such places.
LEMMA ElementAt ==
    ASSUME NEW S, NEW M \in Seq(S), NEW T, NEW g, LaidOut(g, M, T),
           \A i \in 1..Len(M) : M[i].size \in Nat \ {0}, T.size \in Nat \ {0}
    PROVE  \E f \in [0..(Len(M) + 1) -> Nat] : Offsets(f, g, M, T)
<1> DEFINE n == Len(M)
           q == Append(M, T)
           m == n + 1
           here(o) == {x \in g.elements : x.at = o}
<1>1. /\ n \in Nat /\ m \in Nat /\ q \in Seq(S \cup {T}) /\ Len(q) = m
      /\ \A i \in 1..n : q[i] = M[i]
      /\ q[m] = T
  OBVIOUS
<1>2. \A i \in 1..m : q[i].size \in Nat \ {0}
  <2> SUFFICES ASSUME NEW i \in 1..m PROVE q[i].size \in Nat \ {0}
    OBVIOUS
  <2>1. i = m \/ i \in 1..n
    BY <1>1
  <2> HIDE DEF q, m
  <2> QED
    BY <1>1, <2>1 DEF n
<1>3. SubSeq(q, 1, n) = M
  <2>1. Len(SubSeq(q, 1, n)) = n /\ \A i \in 1..n : SubSeq(q, 1, n)[i] = q[i]
    BY <1>1
  <2>2. SubSeq(q, 1, n) \in Seq(S \cup {T}) /\ M \in Seq(S \cup {T})
    BY <1>1
  <2> QED
    BY <1>1, <2>1, <2>2
<1> HIDE DEF q, m
<1>4. EntrySize \in Nat /\ EntrySize = 3
  BY DEF EntrySize
<1>5. PICK f \in [0..m -> Nat] : Summing(f, q)
  <2>1. \A i \in 1..Len(q) : q[i].size \in Nat
    BY <1>1, <1>2
  <2> QED
    BY <1>1, <1>4, <2>1, Sums
<1>6. \A i \in 1..m : f[i] = f[i - 1] + q[i].size
  BY <1>1, <1>5 DEF Summing
<1>7. \A k \in 0..m : Behind(SubSeq(q, 1, k)) = f[k]
  <2>1. \A i \in 1..Len(q) : q[i].size \in Nat
    BY <1>1, <1>2
  <2>2. f \in [0..Len(q) -> Nat]
    BY <1>1, <1>5
  <2>3. ASSUME NEW k \in 0..m
        PROVE Behind(SubSeq(q, 1, k)) = f[k]
    <3>1. k \in 0..Len(q)
      BY <1>1
    <3> QED
      BY <1>1, <1>4, <1>5, <2>1, <2>2, <3>1, SumsBefore
  <2> QED
    BY <2>3
<1>8. f[n] = g.target_offset
  <2>1. n \in 0..m
    BY <1>1 DEF m
  <2> QED
    BY <1>3, <1>7, <2>1 DEF LaidOut
<1>9. f[m] = g.next_offset
  <2>1. m \in 1..m /\ m - 1 = n
    BY <1>1 DEF m
  <2> QED
    BY <1>1, <1>6, <1>8, <2>1 DEF LaidOut
<1>10. \A i, j \in 0..m : i < j => f[i] < f[j]
  <2>1. ASSUME NEW k \in 1..m PROVE f[k - 1] < f[k]
    <3>1. f[k] = f[k - 1] + q[k].size /\ q[k].size \in Nat \ {0} /\ f[k - 1] \in Nat
      BY <1>1, <1>2, <1>6
    <3> QED
      BY <3>1
  <2>2. \A k \in 1..m : f[k - 1] <= f[k]
    <3>1. \A k \in 1..m : f[k - 1] \in Nat /\ f[k] \in Nat
      BY <1>1
    <3> QED
      BY <2>1, <3>1
  <2>3. \A i, j \in 0..m : i <= j => f[i] <= f[j]
    BY <1>1, <1>5, <2>2, NeverDown
  <2>4. ASSUME NEW i \in 0..m, NEW j \in 0..m, i < j PROVE f[i] < f[j]
    <3>1. j \in 1..m /\ j - 1 \in 0..m /\ i <= j - 1
      BY <1>1, <2>4
    <3>2. f[i] <= f[j - 1] /\ f[j - 1] < f[j]
      BY <2>1, <2>3, <3>1
    <3>3. f[i] \in Nat /\ f[j] \in Nat /\ f[j - 1] \in Nat
      BY <3>1
    <3> QED
      BY <3>2, <3>3
  <2> QED
    BY <2>4
<1>11. \A i, j \in 0..m : f[i] = f[j] => i = j
  <2>1. ASSUME NEW i \in 0..m, NEW j \in 0..m, f[i] = f[j] PROVE i = j
    <3>1. ~(f[i] < f[j]) /\ ~(f[j] < f[i])
      BY <2>1
    <3>2. ~(i < j) /\ ~(j < i)
      BY <1>10, <3>1
    <3>3. i \in Nat /\ j \in Nat
      BY <1>1
    <3> QED
      BY <3>2, <3>3
  <2> QED
    BY <2>1
<1>12. g.elements = {[at |-> f[i - 1], element |-> q[i]] : i \in 1..m}
  <2>1. DOMAIN q = 1..m
    BY <1>1
  <2>2. ASSUME NEW i \in 1..m
        PROVE Behind(SubSeq(q, 1, i - 1)) = f[i - 1]
    <3>1. i - 1 \in 0..m
      BY <1>1
    <3> QED
      BY <1>7, <3>1
  <2>3. Elements(q) = {[at |-> f[i - 1], element |-> q[i]] : i \in 1..m}
    BY <2>1, <2>2 DEF Elements
  <2> QED
    BY <2>3 DEF LaidOut, q
<1>13. ASSUME NEW i \in 1..m PROVE here(f[i - 1]) = {[at |-> f[i - 1], element |-> q[i]]}
  <2>1. [at |-> f[i - 1], element |-> q[i]] \in here(f[i - 1])
    BY <1>12
  <2>2. ASSUME NEW x \in here(f[i - 1]) PROVE x = [at |-> f[i - 1], element |-> q[i]]
    <3>1. PICK j \in 1..m : x = [at |-> f[j - 1], element |-> q[j]]
      BY <1>12
    <3>2. f[j - 1] = f[i - 1]
      BY <3>1
    <3>3. i - 1 \in 0..m /\ j - 1 \in 0..m /\ (i - 1 = j - 1 => i = j)
      BY <1>1
    <3>4. i = j
      BY <1>11, <3>2, <3>3
    <3> QED
      BY <3>1, <3>4
  <2> HIDE DEF here
  <2> QED
    BY <2>1, <2>2
<1>14. \A x \in g.elements : \E i \in 1..m : x.at = f[i - 1]
  BY <1>12
<1>15. \A i \in 1..n : f[i] = f[i - 1] + M[i].size
  <2>1. \A i \in 1..n : i \in 1..m
    BY <1>1 DEF m
  <2> QED
    BY <1>1, <1>6, <2>1
<1>16. f[0] = EntrySize
  BY <1>5 DEF Summing
<1> HIDE DEF n
<1>17. /\ f \in [0..(n + 1) -> Nat]
       /\ f[0] = EntrySize /\ f[n] = g.target_offset
       /\ f[n + 1] = g.next_offset
       /\ \A i \in 1..n : f[i] = f[i - 1] + M[i].size
       /\ \A i, j \in 0..(n + 1) : i < j => f[i] < f[j]
       /\ \A i \in 1..(n + 1) : here(f[i - 1]) = {[at |-> f[i - 1], element |-> q[i]]}
       /\ \A x \in g.elements : \E i \in 1..(n + 1) : x.at = f[i - 1]
  BY <1>5, <1>8, <1>9, <1>10, <1>13, <1>14, <1>15, <1>16 DEF m
<1>18. Offsets(f, g, M, T) /\ f \in [0..(Len(M) + 1) -> Nat]
  BY <1>17 DEF n, q, Offsets
<1> QED
  BY <1>18

\* A member of a set.
MemberOf(S) == CHOOSE x \in S : TRUE

\* A set of one has that one.
LEMMA OneMember == \A v : MemberOf({v}) = v
  BY DEF MemberOf

\* The kernel finds the matches and the target that were put there.
LEMMA WalkRead ==
    ASSUME NEW S, NEW M \in Seq(S), NEW T, NEW g, LaidOut(g, M, T),
           \A i \in 1..Len(M) : M[i].size \in Nat \ {0}, T.size \in Nat \ {0}
    PROVE  Walked(g) = M /\ TargetRead(g) = T
<1> DEFINE n == Len(M)
           q == Append(M, T)
           here(o) == {x \in g.elements : x.at = o}
           Found(o) == MemberOf(here(o)).element
           Onward(w, o) ==
               IF o >= g.target_offset THEN <<>>
               ELSE IF Cardinality(here(o)) # 1 THEN <<Undefined>>
               ELSE IF o + Found(o).size > g.next_offset THEN <<Undefined>>
               ELSE <<Found(o)>> \o w[o + Found(o).size]
           walk == CHOOSE w : w = [o \in 0..g.next_offset |-> Onward(w, o)]
<1>0. PICK f \in [0..(n + 1) -> Nat] : Offsets(f, g, M, T)
  BY ElementAt
<1>1. Walked(g) = walk[EntrySize]
  BY DEF Walked, MemberOf
<1>2. /\ f[0] = EntrySize /\ f[n] = g.target_offset
      /\ f[n + 1] = g.next_offset
      /\ \A i \in 1..n : f[i] = f[i - 1] + M[i].size
      /\ \A i, j \in 0..(n + 1) : i < j => f[i] < f[j]
      /\ \A i \in 1..(n + 1) : here(f[i - 1]) = {[at |-> f[i - 1], element |-> q[i]]}
      /\ \A x \in g.elements : \E i \in 1..(n + 1) : x.at = f[i - 1]
  BY <1>0 DEF Offsets
<1>3. /\ n \in Nat /\ q[n + 1] = T /\ \A i \in 1..n : q[i] = M[i]
  OBVIOUS
<1>4. ASSUME NEW i \in 1..(n + 1)
      PROVE Cardinality(here(f[i - 1])) = 1 /\ Found(f[i - 1]) = q[i]
  <2>1. here(f[i - 1]) = {[at |-> f[i - 1], element |-> q[i]]}
    BY <1>2
  <2> DEFINE x == [at |-> f[i - 1], element |-> q[i]]
  <2>2. x.element = q[i]
    OBVIOUS
  <2> HIDE DEF here, x, q
  <2>3. Cardinality({x}) = 1
    BY FS_Singleton
  <2>4. here(f[i - 1]) = {x}
    BY <2>1 DEF x
  <2>5. MemberOf(here(f[i - 1])) = x
    BY <2>4, OneMember
  <2> QED
    BY <2>2, <2>3, <2>4, <2>5
<1>5. TargetRead(g) = T
  <2>1. n + 1 \in 1..(n + 1) /\ (n + 1) - 1 = n
    BY <1>3
  <2>2. Cardinality(here(f[n])) = 1 /\ Found(f[n]) = T
    <3> HIDE DEF here, Found, q
    <3>1. Cardinality(here(f[(n + 1) - 1])) = 1 /\ Found(f[(n + 1) - 1]) = q[n + 1]
      BY <1>4, <2>1
    <3> QED
      BY <1>3, <2>1, <3>1
  <2>3. TargetRead(g) = IF Cardinality(here(g.target_offset)) # 1 THEN Undefined
                        ELSE Found(g.target_offset)
    BY DEF TargetRead, MemberOf
  <2> HIDE DEF here, Found, q
  <2> QED
    BY <1>2, <2>2, <2>3
<1> HIDE DEF n, q, Found
\* Before the target the elements are where one of the first n begins.
<1>6. ASSUME NEW o \in 0..g.next_offset, ~(o >= g.target_offset), Cardinality(here(o)) = 1
      PROVE \E i \in 1..n : o = f[i - 1]
  <2>1. here(o) # {}
    <3>1. Cardinality({}) = 0
      BY FS_EmptySet
    <3> HIDE DEF here
    <3>2. Cardinality(here(o)) = 1
      BY <1>6
    <3>3. 0 # 1
      OBVIOUS
    <3> QED
      BY <3>1, <3>2, <3>3, Zenon
  <2>2. PICK i \in 1..(n + 1) : o = f[i - 1]
    BY <1>2, <2>1
  <2>3. i # n + 1
    <3>1. (n + 1) - 1 = n /\ f[n] >= f[n]
      BY <1>2, <1>3
    <3> QED
      BY <1>2, <1>6, <2>2, <3>1
  <2> QED
    BY <1>3, <2>2, <2>3
<1>7. ASSUME NEW i \in 1..n
      PROVE /\ f[i - 1] \in 0..g.next_offset /\ ~(f[i - 1] >= g.target_offset)
            /\ f[i] \in 0..g.next_offset
            /\ f[i - 1] + q[i].size = f[i] /\ ~(f[i] > g.next_offset)
            /\ i < n => ~(f[i] >= g.target_offset)
  <2>1. i \in 0..(n + 1) /\ i - 1 \in 0..(n + 1) /\ i \in 1..(n + 1) /\ i - 1 < n /\ i < n + 1
        /\ n \in 0..(n + 1) /\ n + 1 \in 0..(n + 1) /\ i - 1 < n + 1
    BY <1>3
  <2>2. f[i - 1] < f[n] /\ f[i] < f[n + 1] /\ f[i - 1] < f[n + 1] /\ (i < n => f[i] < f[n])
    BY <1>2, <2>1
  <2>3. f[i - 1] \in Nat /\ f[i] \in Nat /\ f[n] \in Nat /\ f[n + 1] \in Nat
    BY <2>1
  <2>4. f[i - 1] + q[i].size = f[i]
    BY <1>2, <1>3, <2>1
  <2> QED
    BY <1>2, <2>2, <2>3, <2>4
\* What the walk gives from o on.
<1> DEFINE Place(o) == CHOOSE i \in 1..n : o = f[i - 1]
           h == [o \in 0..g.next_offset |->
                    IF o >= g.target_offset THEN <<>>
                    ELSE IF Cardinality(here(o)) # 1 THEN <<Undefined>>
                    ELSE SubSeq(M, Place(o), n)]
<1>8. ASSUME NEW i \in 1..n PROVE Place(f[i - 1]) = i
  <2>1. ASSUME NEW j \in 1..n, f[i - 1] = f[j - 1] PROVE i = j
    <3>1. i - 1 \in 0..(n + 1) /\ j - 1 \in 0..(n + 1)
      BY <1>3
    <3>2. ~(f[i - 1] < f[j - 1]) /\ ~(f[j - 1] < f[i - 1])
      <4>1. f[i - 1] \in Nat
        BY <3>1
      <4> QED
        BY <2>1, <4>1
    <3>3. ~(i - 1 < j - 1) /\ ~(j - 1 < i - 1)
      BY <1>2, <3>1, <3>2
    <3> QED
      BY <1>3, <3>3
  <2> QED
    BY <2>1
<1> HIDE DEF Place, here
<1>9. ASSUME NEW i \in 0..n
      PROVE f[i] \in 0..g.next_offset /\ h[f[i]] = SubSeq(M, i + 1, n)
  <2>1. CASE i = n
    <3>1. f[n] \in 0..g.next_offset /\ f[n] >= g.target_offset
      <4>1. n \in 0..(n + 1) /\ n + 1 \in 0..(n + 1) /\ n < n + 1
        BY <1>3
      <4>2. f[n] < f[n + 1]
        BY <1>2, <4>1
      <4>3. f[n] \in Nat /\ f[n + 1] \in Nat
        BY <4>1
      <4> QED
        BY <1>2, <4>2, <4>3
    <3>2. SubSeq(M, n + 1, n) = <<>>
      BY <1>3
    <3> QED
      BY <2>1, <3>1, <3>2
  <2>2. CASE i # n
    <3>1. i + 1 \in 1..n /\ (i + 1) - 1 = i /\ i + 1 \in 1..(n + 1)
      BY <1>3, <2>2
    <3>2. f[i] \in 0..g.next_offset /\ ~(f[i] >= g.target_offset)
      BY <1>7, <3>1
    <3>3. Cardinality(here(f[i])) = 1
      BY <1>4, <3>1
    <3>4. Place(f[i]) = i + 1
      BY <1>8, <3>1
    <3> QED
      BY <3>2, <3>3, <3>4
  <2> QED
    BY <2>1, <2>2
<1>10. ASSUME NEW i \in 1..n
       PROVE <<q[i]>> \o SubSeq(M, i + 1, n) = SubSeq(M, i, n)
  <2> DEFINE a == <<q[i]>> \o SubSeq(M, i + 1, n)
             b == SubSeq(M, i, n)
  <2>1. q[i] = M[i] /\ M[i] \in S
    BY <1>3 DEF n
  <2>2. a \in Seq(S) /\ b \in Seq(S) /\ Len(a) = n - i + 1 /\ Len(b) = n - i + 1
    BY <1>3, <2>1 DEF n
  <2>3. ASSUME NEW k \in 1..(n - i + 1) PROVE a[k] = b[k]
    <3>1. b[k] = M[i + k - 1]
      BY <1>3, <2>2 DEF n
    <3>2. CASE k = 1
      BY <1>3, <2>1, <3>1, <3>2 DEF n
    <3>3. CASE k # 1
      <4>1. k - 1 \in 1..(n - i) /\ Len(SubSeq(M, i + 1, n)) = n - i
        BY <1>3, <3>3 DEF n
      <4>2. a[k] = SubSeq(M, i + 1, n)[k - 1]
        BY <1>3, <2>1, <4>1 DEF n
      <4>3. SubSeq(M, i + 1, n)[k - 1] = M[(i + 1) + (k - 1) - 1]
        BY <1>3, <4>1 DEF n
      <4>4. (i + 1) + (k - 1) - 1 = i + k - 1
        BY <1>3
      <4> QED
        BY <3>1, <4>2, <4>3, <4>4
    <3> QED
      BY <3>2, <3>3
  <2> HIDE DEF a, b
  <2>4. a = b
    BY <2>2, <2>3, SeqEqual
  <2> QED
    BY <2>4 DEF a, b
<1>11. ASSUME NEW o \in 0..g.next_offset PROVE h[o] = Onward(h, o)
  <2>1. CASE o >= g.target_offset
    BY <2>1
  <2>2. CASE ~(o >= g.target_offset) /\ Cardinality(here(o)) # 1
    BY <2>2
  <2>3. CASE ~(o >= g.target_offset) /\ Cardinality(here(o)) = 1
    <3>1. PICK i \in 1..n : o = f[i - 1]
      BY <1>6, <2>3
    <3>2. Found(o) = q[i] /\ o + q[i].size = f[i] /\ ~(f[i] > g.next_offset)
      <4>1. i \in 1..(n + 1)
        BY <1>3
      <4> QED
        BY <1>4, <1>7, <3>1, <4>1
    <3>3. h[f[i]] = SubSeq(M, i + 1, n)
      <4>1. i \in 0..n
        BY <1>3
      <4> QED
        BY <1>9, <4>1
    <3>4. h[o] = SubSeq(M, i, n)
      <4>1. i - 1 \in 0..n /\ (i - 1) + 1 = i
        BY <1>3
      <4> QED
        BY <1>9, <3>1, <4>1
    <3> HIDE DEF h
    <3>5. Onward(h, o) = <<q[i]>> \o h[f[i]]
      BY <2>3, <3>2
    <3> QED
      BY <1>10, <3>3, <3>4, <3>5
  <2> QED
    BY <2>1, <2>2, <2>3
<1>12. h = [o \in 0..g.next_offset |-> Onward(h, o)]
  <2>1. h = [o \in 0..g.next_offset |-> h[o]]
    OBVIOUS
  <2> HIDE DEF h, Onward
  <2> QED
    BY <1>11, <2>1
<1> HIDE DEF h, Onward
<1>13. walk = [o \in 0..g.next_offset |-> Onward(walk, o)]
  BY <1>12
<1> HIDE DEF walk
\* From the last element to the first.
<1> DEFINE G == {k \in 0..n : walk[f[n - k]] = SubSeq(M, (n - k) + 1, n)}
<1>14. \A i \in 0..n : f[i] \in 0..g.next_offset
  BY <1>9
<1>15. ASSUME NEW k \in 0..n, 0..(k - 1) \subseteq G PROVE k \in G
  <2> DEFINE j == n - k
  <2>1. j \in 0..n /\ n - j = k
    BY <1>3
  <2>2. walk[f[j]] = Onward(walk, f[j])
    BY <1>13, <1>14, <2>1
  <2>3. CASE k = 0
    <3>1. j = n /\ f[n] >= g.target_offset /\ SubSeq(M, n + 1, n) = <<>>
      <4>1. f[n] \in Nat
        BY <1>3
      <4> QED
        BY <1>2, <1>3, <2>3, <4>1
    <3>2. Onward(walk, f[n]) = <<>>
      BY <3>1 DEF Onward
    <3> HIDE DEF j
    <3>3. walk[f[j]] = SubSeq(M, j + 1, n)
      BY <2>2, <3>1, <3>2
    <3> QED
      BY <3>3 DEF j
  <2>4. CASE k # 0
    <3>1. j + 1 \in 1..n /\ (j + 1) - 1 = j /\ k - 1 \in 0..(k - 1) /\ n - (k - 1) = j + 1
          /\ j + 1 \in 1..(n + 1)
      BY <1>3, <2>4
    <3>2. walk[f[j + 1]] = SubSeq(M, (j + 1) + 1, n)
      <4>1. k - 1 \in G
        BY <1>15, <3>1
      <4> HIDE DEF j
      <4> QED
        BY <3>1, <4>1
    <3> HIDE DEF j
    <3>3. Found(f[j]) = q[j + 1] /\ Cardinality(here(f[j])) = 1
      BY <1>4, <3>1
    <3>4. f[j] + q[j + 1].size = f[j + 1] /\ ~(f[j + 1] > g.next_offset)
          /\ ~(f[j] >= g.target_offset)
      BY <1>7, <3>1
    <3>5. Onward(walk, f[j]) = <<q[j + 1]>> \o walk[f[j + 1]]
      BY <3>3, <3>4 DEF Onward
    <3>6. walk[f[j]] = SubSeq(M, j + 1, n)
      BY <1>10, <2>2, <3>1, <3>2, <3>5
    <3> QED
      BY <3>6 DEF j
  <2> QED
    BY <2>3, <2>4
<1>16. n \in G
  <2> HIDE DEF G
  <2>1. \A k \in 0..n : k \in G
    BY <1>3, <1>15, Upwards
  <2> QED
    BY <1>3, <2>1
<1>17. walk[f[0]] = SubSeq(M, 1, n)
  <2>1. n - n = 0 /\ 0 + 1 = 1
    BY <1>3
  <2>2. walk[f[n - n]] = SubSeq(M, (n - n) + 1, n)
    BY <1>16
  <2> HIDE DEF G
  <2> QED
    BY <2>1, <2>2
<1>18. SubSeq(M, 1, n) = M
  BY DEF n
<1> QED
  BY <1>1, <1>2, <1>5, <1>17, <1>18

-----------------------------------------------------------------------------
(* The interface of an entry.                                              *)

\* Character k of a name as the kernel compares it, one NUL after the last.
ByteOf(name, k) == IF k <= Len(name) THEN name[k] ELSE "NUL"

\* No character of a name is the NUL behind it.
LEMMA BytesOfName ==
    ASSUME NEW name, IsName(name)
    PROVE  /\ Len(name) \in Nat /\ DOMAIN name = 1..Len(name)
           /\ \A k \in 1..Len(name) : ByteOf(name, k) = name[k] /\ name[k] # "NUL"
           /\ ByteOf(name, Len(name) + 1) = "NUL"
<1>1. name \in Seq(Range(name)) /\ "NUL" \notin Range(name)
  BY DEF IsName
<1> DEFINE S == Range(name)
<1> HIDE DEF S
<1>2. name \in Seq(S)
  BY <1>1 DEF S
<1>3. Len(name) \in Nat /\ DOMAIN name = 1..Len(name)
  BY <1>2
<1>4. \A k \in 1..Len(name) : name[k] # "NUL"
  BY <1>1, <1>3 DEF Range
<1>5. \A k \in 1..Len(name) : ByteOf(name, k) = name[k]
  BY <1>3 DEF ByteOf
<1>6. ByteOf(name, Len(name) + 1) = "NUL"
  BY <1>3 DEF ByteOf
<1> QED
  BY <1>3, <1>4, <1>5, <1>6

\* The first k characters of a device are those of a name if it begins so.
LEMMA SameBeginning ==
    ASSUME NEW name, IsName(name), NEW device, IsName(device), NEW k \in 0..Len(name),
           \A j \in 1..k : ByteOf(device, j) = ByteOf(name, j)
    PROVE  k <= Len(device) /\ \A j \in 1..k : device[j] = name[j]
<1>1. Len(name) \in Nat /\ Len(device) \in Nat /\ k \in Nat
  BY BytesOfName
<1>2. k <= Len(device)
  <2> SUFFICES ASSUME ~(k <= Len(device)) PROVE FALSE
    OBVIOUS
  <2>1. Len(device) + 1 \in 1..k /\ Len(device) + 1 \in 1..Len(name)
    BY <1>1
  <2>2. ByteOf(device, Len(device) + 1) = "NUL"
    BY BytesOfName
  <2>3. ByteOf(name, Len(device) + 1) # "NUL"
    BY <2>1, BytesOfName
  <2> QED
    BY <2>1, <2>2, <2>3
<1>3. ASSUME NEW j \in 1..k PROVE device[j] = name[j]
  <2>1. j \in 1..Len(device) /\ j \in 1..Len(name)
    BY <1>1, <1>2
  <2>2. ByteOf(device, j) = device[j] /\ ByteOf(name, j) = name[j]
    BY <2>1, BytesOfName
  <2> QED
    BY <2>2
<1> QED
  BY <1>2, <1>3

\* A name that ends in `+' is compared without it, any other with the NUL at
\* its end (xtables_parse_interface).
LEMMA OnItsInterface ==
    ASSUME NEW name, name # None => IsName(name), NEW device, IsName(device),
           NEW i, i = [name |-> name, mask |-> InterfaceMask(name)]
    PROVE  OnInterface(i, device) <=> InterfaceSays(name, device)
<1> DEFINE n == Len(name)
<1>1. OnInterface(i, device) <=>
          \A k \in 1..InterfaceMask(name) : ByteOf(device, k) = ByteOf(name, k)
  BY DEF OnInterface, ByteOf
<1>2. CASE name \in {None, <<>>}
  <2>1. InterfaceMask(name) = 0
    BY <1>2 DEF InterfaceMask
  <2>2. InterfaceSays(name, device)
    BY <1>2 DEF InterfaceSays
  <2> QED
    BY <1>1, <2>1, <2>2
<1>3. CASE name \notin {None, <<>>}
  <2>1. IsName(name)
    BY <1>3
  <2>2. n \in Nat /\ n # 0 /\ DOMAIN name = 1..n /\ n \in 1..n
    <3>1. name \in Seq(Range(name))
      BY <2>1 DEF IsName
    <3>2. n \in Nat /\ DOMAIN name = 1..n
      BY <2>1, BytesOfName
    <3>3. n # 0
      <4> DEFINE S == Range(name)
      <4> HIDE DEF S
      <4>1. name \in Seq(S) /\ name # <<>>
        BY <1>3, <3>1 DEF S
      <4> QED
        BY <4>1, EmptySeq
    <3> QED
      BY <3>2, <3>3
  <2>3. Len(device) \in Nat /\ device \in Seq(Range(device)) /\ name \in Seq(Range(name))
    BY <2>1, BytesOfName DEF IsName
  <2>4. CASE Last(name) = "+"
    <3>1. InterfaceMask(name) = n - 1
      <4>1. CASE name = <<"+">>
        BY <4>1 DEF InterfaceMask
      <4>2. CASE name # <<"+">>
        BY <1>3, <2>4, <4>2 DEF InterfaceMask
      <4> QED
        BY <4>1, <4>2
    <3>2. InterfaceSays(name, device) <=> IsPrefix(Front(name), device)
      BY <1>3, <2>4 DEF InterfaceSays
    <3> DEFINE f == SubSeq(name, 1, n - 1)
               S == Range(name)
               D == Range(device)
    <3>3. Front(name) = f
      BY DEF Front
    <3> HIDE DEF S, D
    <3>4. name \in Seq(S) /\ device \in Seq(D)
      BY <2>3 DEF S, D
    <3>5. Len(f) = n - 1 /\ \A k \in 1..(n - 1) : f[k] = name[k]
      BY <2>2, <3>4
    <3>6. SubSeq(f, 1, n - 1) = f
      BY <2>2, <3>4
    <3> HIDE DEF f
    <3>7. IsPrefix(f, device) <=> n - 1 <= Len(device) /\ f = SubSeq(device, 1, n - 1)
      BY <3>5, <3>6 DEF IsPrefix
    <3>8. ASSUME \A k \in 1..(n - 1) : ByteOf(device, k) = ByteOf(name, k)
          PROVE  n - 1 <= Len(device) /\ f = SubSeq(device, 1, n - 1)
      <4>1. n - 1 \in 0..n
        BY <2>2
      <4>2. n - 1 <= Len(device) /\ \A k \in 1..(n - 1) : device[k] = name[k]
        BY <2>1, <3>8, <4>1, SameBeginning
      <4>3. f \in Seq(S \cup D) /\ SubSeq(device, 1, n - 1) \in Seq(S \cup D)
        <5>1. f \in Seq(S)
          BY <2>2, <3>4 DEF f
        <5>2. SubSeq(device, 1, n - 1) \in Seq(D)
          BY <2>2, <2>3, <3>4, <4>2
        <5> QED
          BY <5>1, <5>2
      <4>4. /\ Len(SubSeq(device, 1, n - 1)) = n - 1
            /\ \A k \in 1..(n - 1) : SubSeq(device, 1, n - 1)[k] = device[k]
        BY <2>2, <2>3, <3>4, <4>2
      <4> DEFINE g == SubSeq(device, 1, n - 1)
      <4> HIDE DEF g
      <4>5. f = g
        BY <3>5, <4>2, <4>3, <4>4, SeqEqual DEF g
      <4> QED
        BY <4>2, <4>5 DEF g
    <3>9. ASSUME n - 1 <= Len(device), f = SubSeq(device, 1, n - 1), NEW k \in 1..(n - 1)
          PROVE  ByteOf(device, k) = ByteOf(name, k)
      <4>1. k \in 1..Len(device) /\ k \in 1..n
        BY <2>2, <2>3, <3>9
      <4>2. ByteOf(device, k) = device[k] /\ ByteOf(name, k) = name[k]
        BY <2>1, <4>1, BytesOfName
      <4>3. SubSeq(device, 1, n - 1)[k] = device[k]
        BY <2>2, <2>3, <3>4, <3>9
      <4> QED
        BY <3>5, <3>9, <4>2, <4>3
    <3> QED
      BY <1>1, <3>1, <3>2, <3>3, <3>7, <3>8, <3>9
  <2>5. CASE Last(name) # "+"
    <3>1. InterfaceMask(name) = n + 1
      <4>1. name # <<"+">>
        BY <2>5 DEF Last
      <4> QED
        BY <1>3, <2>5, <4>1 DEF InterfaceMask
    <3>2. InterfaceSays(name, device) <=> device = name
      BY <1>3, <2>5 DEF InterfaceSays
    <3>3. ASSUME \A k \in 1..(n + 1) : ByteOf(device, k) = ByteOf(name, k)
          PROVE  device = name
      <4>1. n <= Len(device) /\ \A k \in 1..n : device[k] = name[k]
        <5>1. n \in 0..n /\ \A k \in 1..n : k \in 1..(n + 1)
          BY <2>2
        <5> QED
          BY <2>1, <3>3, <5>1, SameBeginning
      <4>2. Len(device) = n
        <5> SUFFICES ASSUME Len(device) # n PROVE FALSE
          OBVIOUS
        <5>1. n + 1 \in 1..Len(device) /\ n + 1 \in 1..(n + 1)
          BY <2>2, <2>3, <4>1
        <5>2. ByteOf(device, n + 1) # "NUL"
          BY <5>1, BytesOfName
        <5>3. ByteOf(name, n + 1) = "NUL"
          BY <2>1, BytesOfName
        <5> QED
          BY <3>3, <5>1, <5>2, <5>3
      <4> DEFINE S == Range(name) \cup Range(device)
      <4>3. device \in Seq(S) /\ name \in Seq(S)
        BY <2>3
      <4> HIDE DEF S
      <4> QED
        BY <4>1, <4>2, <4>3, SeqEqual
    <3> QED
      BY <1>1, <3>1, <3>2, <3>3
  <2> QED
    BY <2>4, <2>5
<1> QED
  BY <1>2, <1>3

-----------------------------------------------------------------------------
(* What a constructor that raised nothing has made of its options.         *)

\* Every option was one of the extension's, was not rejected after those
\* before it, and was taken: d[i] are the data and w[i] the flags after i options.
Taken(d, w, x, args) ==
    /\ d[0] = InitialData(x) /\ w[0] = {}
    /\ \A i \in 1..Len(args) :
          /\ args[i].opt \in OptionsOf(x)
          /\ ~Rejects(x, w[i - 1], args[i])
          /\ d[i] = Takes(x, d[i - 1], args[i])
          /\ w[i] = w[i - 1] \cup {FlagOf(x, args[i])}

\* What the parser holds.
IsParser(p) ==
    \E data, flags, reported, raised :
        p = [data |-> data, flags |-> flags, reported |-> reported, raised |-> raised]

\* One turn keeps an exception, or leaves one, or takes the option.
LEMMA TurnTakes ==
    ASSUME NEW x, NEW e, NEW p, IsParser(p), NEW o
    PROVE  /\ IsParser(Turn(x, e, p, o))
           /\ ~Turn(x, e, p, o).raised =>
                 /\ ~p.raised
                 /\ o.opt \in OptionsOf(x) /\ ~Rejects(x, p.flags, o)
                 /\ Turn(x, e, p, o).data = Takes(x, p.data, o)
                 /\ Turn(x, e, p, o).flags = p.flags \cup {FlagOf(x, o)}
<1> DEFINE t == Turn(x, e, p, o)
           T == Takes(x, p.data, o)
           F == FlagOf(x, o)
           R == Rejects(x, p.flags, o)
           O == o.opt \in OptionsOf(x)
<1>1. PICK data, flags, reported, raised :
          p = [data |-> data, flags |-> flags, reported |-> reported, raised |-> raised]
  BY DEF IsParser
<1>2. CASE p.raised
  <2>1. t = p
    BY <1>2 DEF Turn
  <2> QED
    BY <1>2, <2>1
<1>3. CASE ~p.raised /\ ~O
  <2>1. t = [p EXCEPT !.raised = TRUE]
    BY <1>3 DEF Turn
  <2>2. t = [data |-> data, flags |-> flags, reported |-> reported, raised |-> TRUE]
    BY <1>1, <2>1
  <2>3. t.raised = TRUE
    BY <2>2
  <2> HIDE DEF t
  <2> QED
    BY <2>2, <2>3 DEF IsParser, t
<1>4. CASE ~p.raised /\ O /\ R
  <2>1. t = [p EXCEPT !.data = Undefined, !.reported = TRUE, !.raised = TRUE]
    BY <1>4 DEF Turn
  <2>2. t = [data |-> Undefined, flags |-> flags, reported |-> TRUE, raised |-> TRUE]
    BY <1>1, <2>1
  <2>3. t.raised = TRUE
    BY <2>2
  <2> HIDE DEF t
  <2> QED
    BY <2>2, <2>3 DEF IsParser, t
<1>5. CASE ~p.raised /\ O /\ ~R
  <2>1. t = [p EXCEPT !.data = Takes(x, @, o), !.flags = @ \cup {F}, !.raised = e]
    BY <1>5 DEF Turn
  <2> HIDE DEF t, F
  <2>2. t = [data |-> T, flags |-> flags \cup {F}, reported |-> reported, raised |-> e]
    BY <1>1, <2>1
  <2> HIDE DEF T
  <2>3. t.data = T /\ t.flags = p.flags \cup {F} /\ IsParser(t)
    BY <1>1, <2>2 DEF IsParser
  <2> QED
    BY <1>5, <2>3 DEF t, T, F
<1> QED
  BY <1>2, <1>3, <1>4, <1>5

\* A constructor that raised nothing took every option, one after the other.
LEMMA ParseTakes ==
    ASSUME NEW x, NEW e, NEW S, NEW args \in Seq(S), ~Parse(x, {}, e, args).raised
    PROVE  \E d, w : Taken(d, w, x, args) /\ Parse(x, {}, e, args).data = d[Len(args)]
<1> DEFINE n == Len(args)
<1>1. n \in Nat
  OBVIOUS
<1>2. PICK f : Parsing(f, x, {}, e, args)
  BY ParseSteps
<1>3. /\ f[0] = [data |-> InitialData(x), flags |-> {}, reported |-> FALSE, raised |-> FALSE]
      /\ \A i \in 1..n : f[i] = Turn(x, e, f[i - 1], args[i])
      /\ Parse(x, {}, e, args) = f[n]
  BY <1>2 DEF Parsing
<1> HIDE DEF n
<1>4. \A i \in 0..n : IsParser(f[i])
  <2> DEFINE G == {i \in 0..n : IsParser(f[i])}
  <2>1. ASSUME NEW i \in 0..n, 0..(i - 1) \subseteq G PROVE i \in G
    <3>1. CASE i = 0
      BY <1>3, <3>1 DEF IsParser
    <3>2. CASE i # 0
      <4>1. i \in 1..n /\ i - 1 \in 0..(i - 1)
        BY <1>1, <3>2
      <4>2. IsParser(f[i - 1])
        BY <2>1, <4>1
      <4> DEFINE p == f[i - 1]
      <4> HIDE DEF p
      <4>3. IsParser(Turn(x, e, p, args[i]))
        BY <4>2, TurnTakes DEF p
      <4>4. IsParser(f[i])
        BY <1>3, <4>1, <4>3 DEF p
      <4> QED
        BY <4>4
    <3> QED
      BY <3>1, <3>2
  <2> HIDE DEF G
  <2>2. \A i \in 0..n : i \in G
    BY <1>1, <2>1, Upwards
  <2> QED
    BY <2>2 DEF G
<1>5. ASSUME NEW i \in 1..n, ~f[i].raised
      PROVE  /\ ~f[i - 1].raised
             /\ args[i].opt \in OptionsOf(x) /\ ~Rejects(x, f[i - 1].flags, args[i])
             /\ f[i].data = Takes(x, f[i - 1].data, args[i])
             /\ f[i].flags = f[i - 1].flags \cup {FlagOf(x, args[i])}
  <2>1. IsParser(f[i - 1]) /\ f[i] = Turn(x, e, f[i - 1], args[i])
    BY <1>1, <1>3, <1>4
  <2> DEFINE p == f[i - 1]
             t == Turn(x, e, p, args[i])
  <2>2. IsParser(p) /\ ~t.raised
    BY <1>5, <2>1
  <2> HIDE DEF p
  <2>3. /\ ~p.raised
        /\ args[i].opt \in OptionsOf(x) /\ ~Rejects(x, p.flags, args[i])
        /\ t.data = Takes(x, p.data, args[i])
        /\ t.flags = p.flags \cup {FlagOf(x, args[i])}
    BY <2>2, TurnTakes
  <2> QED
    BY <2>1, <2>3 DEF p
\* From the last option to the first.
<1>6. \A k \in 0..n : ~f[n - k].raised
  <2> DEFINE G == {k \in 0..n : ~f[n - k].raised}
  <2>1. ASSUME NEW k \in 0..n, 0..(k - 1) \subseteq G PROVE k \in G
    <3>1. CASE k = 0
      <4>1. n - 0 = n /\ 0 \in 0..n
        BY <1>1
      <4> QED
        BY <1>3, <3>1, <4>1
    <3>2. CASE k # 0
      <4>1. k - 1 \in 0..(k - 1) /\ n - (k - 1) \in 1..n /\ (n - (k - 1)) - 1 = n - k
        BY <1>1, <3>2
      <4>2. ~f[n - (k - 1)].raised
        BY <2>1, <4>1
      <4>3. ~f[(n - (k - 1)) - 1].raised
        BY <1>5, <4>1, <4>2
      <4>4. ~f[n - k].raised
        BY <4>1, <4>3
      <4> QED
        BY <4>4
    <3> QED
      BY <3>1, <3>2
  <2> HIDE DEF G
  <2>2. \A k \in 0..n : k \in G
    BY <1>1, <2>1, Upwards
  <2> QED
    BY <2>2 DEF G
<1>7. \A i \in 0..n : ~f[i].raised
  <2> SUFFICES ASSUME NEW i \in 0..n PROVE ~f[i].raised
    OBVIOUS
  <2>1. n - i \in 0..n /\ n - (n - i) = i
    BY <1>1
  <2>2. ~f[n - (n - i)].raised
    BY <1>6, <2>1
  <2> QED
    BY <2>1, <2>2
<1> DEFINE d == [i \in 0..n |-> f[i].data]
           w == [i \in 0..n |-> f[i].flags]
<1>8. \A i \in 0..n : d[i] = f[i].data /\ w[i] = f[i].flags
  OBVIOUS
<1> HIDE DEF d, w
<1>9. d[0] = InitialData(x) /\ w[0] = {}
  BY <1>1, <1>3, <1>8
<1>10. ASSUME NEW i \in 1..n
       PROVE /\ args[i].opt \in OptionsOf(x)
             /\ ~Rejects(x, w[i - 1], args[i])
             /\ d[i] = Takes(x, d[i - 1], args[i])
             /\ w[i] = w[i - 1] \cup {FlagOf(x, args[i])}
  <2>1. i \in 0..n /\ i - 1 \in 0..n
    BY <1>1
  <2>2. ~f[i].raised
    BY <1>7, <2>1
  <2>3. /\ args[i].opt \in OptionsOf(x) /\ ~Rejects(x, f[i - 1].flags, args[i])
        /\ f[i].data = Takes(x, f[i - 1].data, args[i])
        /\ f[i].flags = f[i - 1].flags \cup {FlagOf(x, args[i])}
    BY <1>5, <2>2
  <2> QED
    BY <1>8, <2>1, <2>3
<1>11. Taken(d, w, x, args)
  BY <1>9, <1>10 DEF Taken, n
<1>12. Parse(x, {}, e, args).data = d[n]
  BY <1>1, <1>3, <1>8
<1> QED
  BY <1>11, <1>12 DEF n

\* What holds of the data and the flags before the first option, and after an
\* option whenever before it, holds after the last.
LEMMA TakenUpTo ==
    ASSUME NEW S, NEW args \in Seq(S), NEW G,
           0 \in G, \A i \in 1..Len(args) : i - 1 \in G => i \in G
    PROVE  \A i \in 0..Len(args) : i \in G
<1> DEFINE n == Len(args)
<1>1. n \in Nat
  OBVIOUS
<1> HIDE DEF n
<1>2. ASSUME NEW i \in 0..n, 0..(i - 1) \subseteq G PROVE i \in G
  <2>1. CASE i # 0
    <3>1. i \in 1..n /\ i - 1 \in 0..(i - 1)
      BY <1>1, <2>1
    <3> QED
      BY <1>2, <3>1 DEF n
  <2> QED
    BY <2>1
<1>3. \A i \in 0..n : i \in G
  BY <1>1, <1>2, Upwards
<1> QED
  BY <1>3 DEF n

\* The flag of every option taken is set.
LEMMA FlagsTaken ==
    ASSUME NEW x, NEW S, NEW args \in Seq(S), NEW d, NEW w, Taken(d, w, x, args)
    PROVE  \A i \in 0..Len(args) : \A j \in 1..i : FlagOf(x, args[j]) \in w[i]
<1> DEFINE n == Len(args)
           Set(i) == \A j \in 1..i : FlagOf(x, args[j]) \in w[i]
           G == {i \in 0..n : Set(i)}
<1>1. n \in Nat
  OBVIOUS
<1> HIDE DEF n
<1>2. 0 \in G
  BY <1>1
<1>3. ASSUME NEW i \in 1..n, i - 1 \in G PROVE i \in G
  <2>1. i \in 0..n /\ 1..i = (1..(i - 1)) \cup {i}
    BY <1>1
  <2>2. w[i] = w[i - 1] \cup {FlagOf(x, args[i])}
    BY DEF Taken, n
  <2>3. Set(i - 1)
    BY <1>3
  <2>4. Set(i)
    BY <2>1, <2>2, <2>3
  <2> QED
    BY <2>1, <2>4
<1> HIDE DEF G
<1>4. \A i \in 0..n : i \in G
  BY <1>2, <1>3, TakenUpTo DEF n
<1> QED
  BY <1>4 DEF G, n

-----------------------------------------------------------------------------
(* The matches.                                                            *)

\* Data such as the block of tcp.
TcpBlock ==
    LET Ports == [lo : 0..PortMax, hi : 0..PortMax, inv : BOOLEAN]
    IN  [sport : Ports, dport : Ports,
         flags : [mask : SUBSET TcpFlags, cmp : SUBSET TcpFlags, inv : BOOLEAN],
         option : [number : 0..255, inv : BOOLEAN]]

\* A packet agrees with a field of the data.
PortFits(p, number) == (number \in p.lo..p.hi) # p.inv
FlagsFit(f, flags) == (flags \cap f.mask = f.cmp) # f.inv
OptionFits(o, options) == o.number # 0 => (o.number \in options) # o.inv

\* The parts of a block of tcp.
LEMMA TcpParts ==
    ASSUME NEW data, NEW packet
    PROVE  TcpMatches(data, packet) <=>
               /\ PortFits(data.sport, packet.sport) /\ PortFits(data.dport, packet.dport)
               /\ FlagsFit(data.flags, packet.flags)
               /\ OptionFits(data.option, packet.options)
<1>1. (\A field \in {"sport", "dport"} :
          (packet[field] \in data[field].lo..data[field].hi) # data[field].inv)
      <=> PortFits(data.sport, packet.sport) /\ PortFits(data.dport, packet.dport)
  BY DEF PortFits
<1> QED
  BY <1>1 DEF TcpMatches, FlagsFit, OptionFits

\* Every packet agrees with a field no option has filled in.
LEMMA TcpUntouched ==
    /\ \A number \in 0..PortMax : PortFits(TcpInit.sport, number) /\ PortFits(TcpInit.dport, number)
    /\ \A flags : FlagsFit(TcpInit.flags, flags)
    /\ \A options : OptionFits(TcpInit.option, options)
    /\ TcpInit \in TcpBlock
<1>1. TcpInit.sport = AnyPort /\ TcpInit.dport = AnyPort
  BY DEF TcpInit
<1>2. AnyPort.lo = 0 /\ AnyPort.hi = PortMax /\ AnyPort.inv = FALSE
  BY DEF AnyPort
<1>3. /\ TcpInit.flags.mask = {} /\ TcpInit.flags.cmp = {} /\ TcpInit.flags.inv = FALSE
      /\ TcpInit.option.number = 0
  BY DEF TcpInit
<1>4. TcpInit \in TcpBlock
  <2>1. PortMax \in Nat
    BY OptionsAssumption, Zenon
  <2>2. AnyPort \in [lo : 0..PortMax, hi : 0..PortMax, inv : BOOLEAN]
    BY <2>1 DEF AnyPort
  <2> QED
    BY <2>2 DEF TcpInit, TcpBlock
<1>5. ASSUME NEW number \in 0..PortMax PROVE PortFits(AnyPort, number)
  BY <1>2 DEF PortFits
<1>6. ASSUME NEW flags PROVE FlagsFit(TcpInit.flags, flags)
  BY <1>3 DEF FlagsFit
<1>7. ASSUME NEW options PROVE OptionFits(TcpInit.option, options)
  BY <1>3 DEF OptionFits
<1> QED
  BY <1>1, <1>4, <1>5, <1>6, <1>7

TcpFields == {"sport", "dport", "flags", "option"}

\* Fields that no option has filled in are as they were in the beginning.
Untouched(data, flags) ==
    \A field \in TcpFields \ flags : data[field] = TcpInit[field]

\* The field an option fills in, with what the option says.
LEMMA TcpTakesOne ==
    ASSUME NEW d \in TcpBlock, NEW flags, Untouched(d, flags),
           NEW o, RightKind(o), o.opt \in DOMAIN TcpField, ~TcpRejects(flags, o)
    PROVE  /\ TcpField[o.opt] \in TcpFields \ flags
           /\ \E v : /\ TcpTakes(d, o) = [d EXCEPT ![TcpField[o.opt]] = v]
                    /\ [d EXCEPT ![TcpField[o.opt]] = v] \in TcpBlock
                    /\ \A packet \in Packets :
                          OptionSays("tcp", o, packet) <=>
                              CASE TcpField[o.opt] = "sport" -> PortFits(v, packet.sport)
                                [] TcpField[o.opt] = "dport" -> PortFits(v, packet.dport)
                                [] TcpField[o.opt] = "flags" -> FlagsFit(v, packet.flags)
                                [] TcpField[o.opt] = "option" -> OptionFits(v, packet.options)
<1> DEFINE field == TcpField[o.opt]
           inv == d[field].inv \/ (o.not /\ o.opt # "syn")
<1>1. o.opt \in {"source-port", "destination-port", "syn", "tcp-flags", "tcp-option"}
  BY DEF TcpField
<1>2. field \in TcpFields \ flags
  BY <1>1 DEF TcpField, TcpFields, TcpRejects
<1>3. inv = o.not /\ o.not \in BOOLEAN
  <2>1. d[field] = TcpInit[field]
    BY <1>2 DEF Untouched
  <2>2. \A f \in TcpFields : TcpInit[f].inv = FALSE
    BY DEF TcpInit, TcpFields, AnyPort
  <2>3. d[field].inv = FALSE
    BY <1>2, <2>1, <2>2
  <2>4. o.not \in BOOLEAN
    BY DEF RightKind
  <2>5. (o.not /\ o.opt # "syn") = o.not
    BY <2>4 DEF RightKind
  <2> QED
    BY <2>3, <2>4, <2>5
<1>4. CASE o.opt \in {"source-port", "destination-port"}
  <2> DEFINE r == PortRange(o.arg)
             v == [lo |-> r.lo, hi |-> r.hi, inv |-> o.not]
  <2>1. field = IF o.opt = "source-port" THEN "sport" ELSE "dport"
    BY <1>4 DEF TcpField
  <2>2. TcpTakes(d, o) = [d EXCEPT ![field] = v]
    <3>1. field \in {"sport", "dport"}
      BY <2>1
    <3>2. TcpTakes(d, o) = [d EXCEPT ![field] = [lo |-> r.lo, hi |-> r.hi, inv |-> inv]]
      BY <1>4, <2>1, <3>1 DEF TcpTakes
    <3> HIDE DEF inv, r, field
    <3> QED
      BY <1>3, <3>2
  <2>3. r.lo \in 0..PortMax /\ r.hi \in 0..PortMax
    BY <2>1 DEF TcpRejects, PortsRejected, IsNumber
  <2> HIDE DEF r
  <2>4. v \in [lo : 0..PortMax, hi : 0..PortMax, inv : BOOLEAN]
    BY <1>3, <2>3
  <2>5. v.lo = r.lo /\ v.hi = r.hi /\ v.inv = o.not
    OBVIOUS
  <2> HIDE DEF v
  <2>6. [d EXCEPT ![field] = v] \in TcpBlock
    BY <2>1, <2>4 DEF TcpBlock
  <2>7. ASSUME NEW packet \in Packets
        PROVE  OptionSays("tcp", o, packet) <=>
                   IF o.opt = "source-port" THEN PortFits(v, packet.sport)
                   ELSE PortFits(v, packet.dport)
    <3>1. CASE o.opt = "source-port"
      <4>1. OptionSays("tcp", o, packet) <=> (o.not # (packet.sport \in r.lo..r.hi))
        BY <3>1 DEF OptionSays, r
      <4> QED
        BY <1>3, <2>5, <3>1, <4>1 DEF PortFits
    <3>2. CASE o.opt = "destination-port"
      <4>1. OptionSays("tcp", o, packet) <=> (o.not # (packet.dport \in r.lo..r.hi))
        BY <3>2 DEF OptionSays, r
      <4> QED
        BY <1>3, <2>5, <3>2, <4>1 DEF PortFits
    <3> QED
      BY <1>4, <3>1, <3>2
  <2> HIDE DEF field
  <2>8. \A packet \in Packets :
            OptionSays("tcp", o, packet) <=>
                CASE field = "sport" -> PortFits(v, packet.sport)
                  [] field = "dport" -> PortFits(v, packet.dport)
                  [] field = "flags" -> FlagsFit(v, packet.flags)
                  [] field = "option" -> OptionFits(v, packet.options)
    BY <1>4, <2>1, <2>7
  <2> QED
    BY <1>2, <2>2, <2>6, <2>8 DEF field
<1>5. CASE o.opt \in {"syn", "tcp-flags"}
  <2> DEFINE mask == IF o.opt = "syn" THEN {"SYN", "RST", "ACK", "FIN"} ELSE FlagsOf(o.arg.mask)
             cmp == IF o.opt = "syn" THEN {"SYN"} ELSE FlagsOf(o.arg.cmp)
             v == [mask |-> mask, cmp |-> cmp, inv |-> o.not]
  <2>1. field = "flags"
    BY <1>5 DEF TcpField
  <2>2. TcpTakes(d, o) = [d EXCEPT ![field] = v]
    BY <1>3, <1>5, <2>1 DEF TcpTakes
  <2>3. mask \subseteq TcpFlags /\ cmp \subseteq TcpFlags
    BY DEF FlagsOf, TcpFlags
  <2>4. ASSUME NEW packet \in Packets
        PROVE  OptionSays("tcp", o, packet) <=> (o.not # (packet.flags \cap mask = cmp))
    <3>1. CASE o.opt = "syn"
      BY <3>1 DEF OptionSays
    <3>2. CASE o.opt = "tcp-flags"
      BY <3>2 DEF OptionSays
    <3> QED
      BY <1>5, <3>1, <3>2
  <2> HIDE DEF mask, cmp
  <2>5. v \in [mask : SUBSET TcpFlags, cmp : SUBSET TcpFlags, inv : BOOLEAN]
    BY <1>3, <2>3
  <2>6. v.mask = mask /\ v.cmp = cmp /\ v.inv = o.not
    OBVIOUS
  <2> HIDE DEF v
  <2>7. [d EXCEPT ![field] = v] \in TcpBlock
    BY <2>1, <2>5 DEF TcpBlock
  <2>8. ASSUME NEW packet \in Packets
        PROVE  OptionSays("tcp", o, packet) <=> FlagsFit(v, packet.flags)
    BY <1>3, <2>4, <2>6 DEF FlagsFit
  <2> HIDE DEF field
  <2>9. \A packet \in Packets :
            OptionSays("tcp", o, packet) <=>
                CASE field = "sport" -> PortFits(v, packet.sport)
                  [] field = "dport" -> PortFits(v, packet.dport)
                  [] field = "flags" -> FlagsFit(v, packet.flags)
                  [] field = "option" -> OptionFits(v, packet.options)
    BY <2>1, <2>8
  <2> QED
    BY <1>2, <2>2, <2>7, <2>9 DEF field
<1>6. CASE o.opt = "tcp-option"
  <2> DEFINE v == [number |-> o.arg.number, inv |-> o.not]
  <2>1. field = "option"
    BY <1>6 DEF TcpField
  <2>2. TcpTakes(d, o) = [d EXCEPT ![field] = v]
    BY <1>3, <1>6, <2>1 DEF TcpTakes
  <2>3. o.arg.number \in 1..255
    BY <1>6 DEF TcpRejects, IsNumber
  <2>4. v \in [number : 0..255, inv : BOOLEAN] /\ v.number = o.arg.number /\ v.inv = o.not
    BY <1>3, <2>3
  <2>5. v.number # 0
    BY <2>3, <2>4
  <2> HIDE DEF v
  <2>6. [d EXCEPT ![field] = v] \in TcpBlock
    BY <2>1, <2>4 DEF TcpBlock
  <2>7. ASSUME NEW packet \in Packets
        PROVE  OptionSays("tcp", o, packet) <=> OptionFits(v, packet.options)
    <3>1. OptionSays("tcp", o, packet) <=> (o.not # (o.arg.number \in packet.options))
      BY <1>6 DEF OptionSays
    <3> QED
      BY <1>3, <2>4, <2>5, <3>1 DEF OptionFits
  <2> HIDE DEF field
  <2>8. \A packet \in Packets :
            OptionSays("tcp", o, packet) <=>
                CASE field = "sport" -> PortFits(v, packet.sport)
                  [] field = "dport" -> PortFits(v, packet.dport)
                  [] field = "flags" -> FlagsFit(v, packet.flags)
                  [] field = "option" -> OptionFits(v, packet.options)
    BY <2>1, <2>7
  <2> QED
    BY <1>2, <2>2, <2>6, <2>8 DEF field
<1> QED
  BY <1>1, <1>4, <1>5, <1>6

\* One more option of tcp: a packet has to agree with it, too.
LEMMA TcpStep ==
    ASSUME NEW d \in TcpBlock, NEW flags, Untouched(d, flags),
           NEW o, RightKind(o), o.opt \in DOMAIN TcpField, ~TcpRejects(flags, o)
    PROVE  /\ TcpTakes(d, o) \in TcpBlock
           /\ Untouched(TcpTakes(d, o), flags \cup {TcpField[o.opt]})
           /\ \A packet \in Packets :
                 TcpMatches(TcpTakes(d, o), packet) <=>
                     TcpMatches(d, packet) /\ OptionSays("tcp", o, packet)
<1> DEFINE field == TcpField[o.opt]
           e == TcpTakes(d, o)
<1>1. PICK v : /\ e = [d EXCEPT ![field] = v]
               /\ [d EXCEPT ![field] = v] \in TcpBlock
               /\ \A packet \in Packets :
                     OptionSays("tcp", o, packet) <=>
                         CASE field = "sport" -> PortFits(v, packet.sport)
                           [] field = "dport" -> PortFits(v, packet.dport)
                           [] field = "flags" -> FlagsFit(v, packet.flags)
                           [] field = "option" -> OptionFits(v, packet.options)
  BY TcpTakesOne
<1>2. field \in TcpFields \ flags
  BY TcpTakesOne
<1> HIDE DEF field, e
<1>3. e \in TcpBlock
  BY <1>1
<1>4. DOMAIN d = TcpFields
  BY DEF TcpBlock, TcpFields
<1>5. e[field] = v /\ \A f \in TcpFields : f # field => e[f] = d[f]
  BY <1>1, <1>2, <1>4
<1>6. Untouched(e, flags \cup {field})
  BY <1>5 DEF Untouched
<1>7. d[field] = TcpInit[field]
  BY <1>2 DEF Untouched
<1>8. ASSUME NEW packet \in Packets
      PROVE  TcpMatches(e, packet) <=> TcpMatches(d, packet) /\ OptionSays("tcp", o, packet)
  <2>1. packet.sport \in 0..PortMax /\ packet.dport \in 0..PortMax
    BY EntriesAssumption, Zenon
  <2>2. field \in {"sport", "dport", "flags", "option"}
    BY <1>2 DEF TcpFields
  <2>3. CASE field = "sport"
    <3>1. /\ e.sport = v /\ e.dport = d.dport /\ e.flags = d.flags /\ e.option = d.option
          /\ d.sport = TcpInit.sport
      BY <1>5, <1>7, <2>3 DEF TcpFields
    <3>2. OptionSays("tcp", o, packet) <=> PortFits(v, packet.sport)
      BY <1>1, <2>3
    <3>3. PortFits(d.sport, packet.sport)
      BY <2>1, <3>1, TcpUntouched
    <3> QED
      BY <3>1, <3>2, <3>3, TcpParts
  <2>4. CASE field = "dport"
    <3>1. /\ e.sport = d.sport /\ e.dport = v /\ e.flags = d.flags /\ e.option = d.option
          /\ d.dport = TcpInit.dport
      BY <1>5, <1>7, <2>4 DEF TcpFields
    <3>2. OptionSays("tcp", o, packet) <=> PortFits(v, packet.dport)
      BY <1>1, <2>4
    <3>3. PortFits(d.dport, packet.dport)
      BY <2>1, <3>1, TcpUntouched
    <3> QED
      BY <3>1, <3>2, <3>3, TcpParts
  <2>5. CASE field = "flags"
    <3>1. /\ e.sport = d.sport /\ e.dport = d.dport /\ e.flags = v /\ e.option = d.option
          /\ d.flags = TcpInit.flags
      BY <1>5, <1>7, <2>5 DEF TcpFields
    <3>2. OptionSays("tcp", o, packet) <=> FlagsFit(v, packet.flags)
      BY <1>1, <2>5
    <3>3. FlagsFit(d.flags, packet.flags)
      BY <3>1, TcpUntouched
    <3> QED
      BY <3>1, <3>2, <3>3, TcpParts
  <2>6. CASE field = "option"
    <3>1. /\ e.sport = d.sport /\ e.dport = d.dport /\ e.flags = d.flags /\ e.option = v
          /\ d.option = TcpInit.option
      BY <1>5, <1>7, <2>6 DEF TcpFields
    <3>2. OptionSays("tcp", o, packet) <=> OptionFits(v, packet.options)
      BY <1>1, <2>6
    <3>3. OptionFits(d.option, packet.options)
      BY <3>1, TcpUntouched
    <3> QED
      BY <3>1, <3>2, <3>3, TcpParts
  <2> QED
    BY <2>2, <2>3, <2>4, <2>5, <2>6
<1> QED
  BY <1>3, <1>6, <1>8 DEF field, e

\* What the extensions built in are called.
LEMMA ExtensionNames ==
    ASSUME NEW x \in Range(Builtin)
    PROVE  /\ x.kind = "match" => x.name \in {"tcp", "state", "socket"}
           /\ x.kind = "target" => x.name \in {"standard", "TPROXY", "MARK", "NFLOG"}
           /\ x.revision \in 0..2
  BY DEF Range, Builtin, ExtMatch, ExtTarget

\* The blocks of the extensions are different from nothing and from what is
\* undefined.
LEMMA BlockIsData ==
    ASSUME NEW data \in Blocks
    PROVE  data # None /\ data # Undefined
  BY OptionsAssumption, Zenon

\* What an element of a generated entry is made of.
LEMMA ElementIsOne ==
    ASSUME NEW name \in STRING, NEW revision \in 0..2, NEW of \in DOMAIN ElementSize,
           NEW data \in Blocks
    PROVE  /\ ElementSize[of] \in 1..4
           /\ [name |-> name, revision |-> revision, size |-> ElementSize[of], data |-> data]
                 # Undefined
<1>1. ElementSize[of] \in 1..4
  BY DEF ElementSize
<1> DEFINE s == ElementSize[of]
           E == [name : STRING, revision : 0..2, size : 1..4, data : Blocks]
<1> HIDE DEF s
<1>2. [name |-> name, revision |-> revision, size |-> s, data |-> data] \in E
  <2> DEFINE B == Blocks
  <2> HIDE DEF B
  <2>1. data \in B /\ s \in 1..4
    BY <1>1 DEF B, s
  <2>2. [name |-> name, revision |-> revision, size |-> s, data |-> data]
            \in [name : STRING, revision : 0..2, size : 1..4, data : B]
    BY <2>1
  <2> QED
    BY <2>2 DEF B
<1>3. Undefined \notin E
  BY EntriesAssumption, Zenon
<1> QED
  BY <1>1, <1>2, <1>3 DEF s

\* The kernel agrees with every packet the call asked it to agree with, and
\* with no other.
DataSays(c, data) ==
    /\ data \in Blocks
    /\ \A packet \in Packets :
          ElementMatches([name |-> c.name, revision |-> 0,
                          size |-> ElementSize[c.name], data |-> data], packet)
          <=> MatchSays(c, packet)

\* tcp matches the packets that all its options say.
LEMMA TcpAsked ==
    ASSUME NEW x, x.name = "tcp", NEW S, NEW args \in Seq(S), NEW d, NEW w,
           Taken(d, w, x, args), \A i \in 1..Len(args) : RightKind(args[i])
    PROVE  /\ d[Len(args)] \in TcpBlock
           /\ \A packet \in Packets :
                 TcpMatches(d[Len(args)], packet)
                 <=> \A i \in 1..Len(args) : OptionSays("tcp", args[i], packet)
<1> DEFINE n == Len(args)
           Agrees(i) == \A packet \in Packets :
                           TcpMatches(d[i], packet)
                           <=> \A j \in 1..i : OptionSays("tcp", args[j], packet)
           G == {i \in 0..n : d[i] \in TcpBlock /\ Untouched(d[i], w[i]) /\ Agrees(i)}
<1>1. n \in Nat
  OBVIOUS
<1> HIDE DEF n
<1>2. 0 \in G
  <2>1. d[0] = TcpInit /\ w[0] = {}
    BY DEF Taken, InitialData
  <2>2. \A packet \in Packets : packet.sport \in 0..PortMax /\ packet.dport \in 0..PortMax
    BY EntriesAssumption, Zenon
  <2>3. \A packet \in Packets : TcpMatches(TcpInit, packet)
    BY <2>2, TcpUntouched, TcpParts
  <2>4. Untouched(TcpInit, {}) /\ TcpInit \in TcpBlock
    BY TcpUntouched DEF Untouched
  <2>5. Agrees(0)
    BY <2>1, <2>3
  <2>6. 0 \in 0..n /\ d[0] \in TcpBlock /\ Untouched(d[0], w[0])
    BY <1>1, <2>1, <2>4
  <2> HIDE DEF Agrees
  <2> QED
    BY <2>5, <2>6
<1>3. ASSUME NEW i \in 1..n, i - 1 \in G PROVE i \in G
  <2> DEFINE o == args[i]
             b == d[i - 1]
             f == w[i - 1]
  <2>1. /\ b \in TcpBlock /\ Untouched(b, f) /\ Agrees(i - 1)
    BY <1>3
  <2>2. /\ o.opt \in OptionsOf(x) /\ ~Rejects(x, f, o)
        /\ d[i] = Takes(x, b, o) /\ w[i] = f \cup {FlagOf(x, o)}
    BY DEF Taken, n
  <2>3. RightKind(o)
    BY DEF n
  <2> HIDE DEF b, f, o
  <2>4. /\ o.opt \in DOMAIN TcpField /\ ~TcpRejects(f, o)
        /\ d[i] = TcpTakes(b, o) /\ w[i] = f \cup {TcpField[o.opt]}
    BY <2>2 DEF OptionsOf, Rejects, Takes, FlagOf
  <2> HIDE DEF Agrees
  <2>5. /\ d[i] \in TcpBlock /\ Untouched(d[i], w[i])
        /\ \A packet \in Packets :
              TcpMatches(d[i], packet) <=> TcpMatches(b, packet) /\ OptionSays("tcp", o, packet)
    <3> DEFINE t == TcpTakes(b, o)
    <3>1. /\ t \in TcpBlock /\ Untouched(t, f \cup {TcpField[o.opt]})
          /\ \A packet \in Packets :
                TcpMatches(t, packet) <=> TcpMatches(b, packet) /\ OptionSays("tcp", o, packet)
      BY <2>1, <2>3, <2>4, TcpStep
    <3> HIDE DEF t
    <3>2. d[i] = t /\ w[i] = f \cup {TcpField[o.opt]}
      BY <2>4 DEF t
    <3> QED
      BY <3>1, <3>2
  <2>6. Agrees(i)
    <3>1. ASSUME NEW packet \in Packets
          PROVE  TcpMatches(d[i], packet) <=> \A j \in 1..i : OptionSays("tcp", args[j], packet)
      <4>1. TcpMatches(b, packet) <=> \A j \in 1..(i - 1) : OptionSays("tcp", args[j], packet)
        BY <2>1 DEF Agrees, b
      <4>2. 1..i = (1..(i - 1)) \cup {i}
        BY <1>1
      <4>3. TcpMatches(d[i], packet) <=> TcpMatches(b, packet) /\ OptionSays("tcp", args[i], packet)
        BY <2>5 DEF o
      <4> QED
        BY <4>1, <4>2, <4>3
    <3> QED
      BY <3>1 DEF Agrees
  <2>7. i \in 0..n
    BY <1>1
  <2> QED
    BY <2>5, <2>6, <2>7
<1> HIDE DEF G
<1>4. \A i \in 0..n : i \in G
  BY <1>2, <1>3, TakenUpTo DEF n
<1>5. n \in G
  BY <1>1, <1>4
<1> QED
  BY <1>5 DEF G, n

\* state has the states its option says, or the others.
LEMMA StateAsked ==
    ASSUME NEW o, RightKind(o), o.opt = "state", ~StateRejects(o)
    PROVE  /\ StateTakes([states |-> {}], o) \in [states : SUBSET States]
           /\ \A packet \in Packets :
                 packet.state \in StateTakes([states |-> {}], o).states
                 <=> OptionSays("state", o, packet)
<1> DEFINE t == StateTakes([states |-> {}], o)
           s == o.arg.states
<1>1. o.not \in BOOLEAN /\ s \subseteq States
  BY DEF RightKind, StateRejects
<1>2. t = [states |-> IF o.not THEN States \ s ELSE s]
  BY DEF StateTakes
<1>3. t.states = IF o.not THEN States \ s ELSE s
  BY <1>2
<1>4. t \in [states : SUBSET States]
  BY <1>1, <1>2
<1> HIDE DEF t
<1>5. ASSUME NEW packet \in Packets
      PROVE  packet.state \in t.states <=> OptionSays("state", o, packet)
  <2>1. packet.state \in States
    BY EntriesAssumption, Zenon
  <2>2. OptionSays("state", o, packet) <=> (o.not # (packet.state \in s))
    BY DEF OptionSays
  <2> HIDE DEF s
  <2>3. CASE o.not = TRUE
    BY <1>3, <2>1, <2>2, <2>3
  <2>4. CASE o.not = FALSE
    <3>1. OptionSays("state", o, packet) <=> (FALSE # (packet.state \in s))
      BY <2>2, <2>4
    <3>2. packet.state \in t.states <=> packet.state \in s
      BY <1>3, <2>4
    <3>3. CASE packet.state \in s
      <4>1. (packet.state \in s) = TRUE
        BY <3>3
      <4> QED
        BY <3>1, <3>2, <3>3, <4>1
    <3>4. CASE ~(packet.state \in s)
      <4>1. (packet.state \in s) = FALSE
        BY <3>4
      <4> QED
        BY <3>1, <3>2, <3>4, <4>1
    <3> QED
      BY <3>3, <3>4
  <2> QED
    BY <1>1, <2>3, <2>4
<1> QED
  BY <1>4, <1>5 DEF t

\* A match that was made holds what it was asked for.
LEMMA MatchAsked ==
    ASSUME SensibleCalls, NEW c \in MatchCalls, NEW x \in Range(Builtin),
           x.kind = "match", x.name = c.name, NEW e, ~Parse(x, {}, e, c.args).raised
    PROVE  c.name \in {"tcp", "state", "socket"} /\ DataSays(c, Parse(x, {}, e, c.args).data)
<1> DEFINE args == c.args
           n == Len(args)
           data == Parse(x, {}, e, args).data
           element == [name |-> c.name, revision |-> 0,
                       size |-> ElementSize[c.name], data |-> data]
           S == Range(args)
<1>1. c.name \in STRING /\ args \in Seq(S)
  BY EntriesAssumption, Zenon
<1> HIDE DEF S
<1>2. n \in Nat /\ DOMAIN args = 1..n
  BY <1>1
<1>3. /\ \A i \in 1..n : RightKind(args[i])
      /\ c.name = "state" => n = 1
  BY <1>2 DEF SensibleCalls
<1>4. c.name \in {"tcp", "state", "socket"}
  BY ExtensionNames
<1>5. PICK d, w : Taken(d, w, x, args) /\ data = d[n]
  <2>1. ~Parse(x, {}, e, args).raised
    OBVIOUS
  <2> HIDE DEF args
  <2>2. \E d, w : Taken(d, w, x, args) /\ Parse(x, {}, e, args).data = d[Len(args)]
    BY <1>1, <2>1, ParseTakes
  <2> QED
    BY <2>2
<1>6. \A packet : MatchSays(c, packet) <=> \A i \in 1..n : OptionSays(c.name, args[i], packet)
  BY <1>2 DEF MatchSays
<1>7. \A packet : ElementMatches(element, packet) <=>
          /\ element # Undefined /\ data # Undefined
          /\ CASE c.name = "tcp" -> TcpMatches(data, packet)
               [] c.name = "state" -> packet.state \in data.states
               [] c.name = "socket" -> TRUE
  <2> HIDE DEF data, args
  <2> QED
    BY DEF ElementMatches
<1>8. ASSUME data \in Blocks PROVE element # Undefined /\ data # Undefined
  <2>1. c.name \in DOMAIN ElementSize
    BY <1>4 DEF ElementSize
  <2> HIDE DEF data
  <2> QED
    BY <1>1, <1>8, <2>1, ElementIsOne, BlockIsData
<1>9. CASE c.name = "tcp"
  <2>1. data \in TcpBlock
    BY <1>1, <1>3, <1>5, <1>9, TcpAsked
  <2>2. \A packet \in Packets :
            TcpMatches(data, packet) <=> \A i \in 1..n : OptionSays("tcp", args[i], packet)
    BY <1>1, <1>3, <1>5, <1>9, TcpAsked
  <2>3. data \in Blocks
    <3> HIDE DEF data
    <3> QED
      BY <2>1 DEF TcpBlock, Blocks
  <2> HIDE DEF data, element, args, n
  <2> QED
    BY <1>4, <1>6, <1>7, <1>8, <1>9, <2>2, <2>3 DEF DataSays, element, data, args
<1>10. CASE c.name = "state"
  <2> DEFINE o == args[1]
  <2>1. n = 1 /\ RightKind(o)
    BY <1>3, <1>10
  <2>2. /\ o.opt = "state" /\ ~StateRejects(o) /\ d[1] = StateTakes([states |-> {}], o)
    <3>1. /\ d[0] = InitialData(x) /\ o.opt \in OptionsOf(x) /\ ~Rejects(x, w[1 - 1], o)
          /\ d[1] = Takes(x, d[1 - 1], o)
      BY <1>5, <2>1 DEF Taken
    <3>2. d[1 - 1] = [states |-> {}]
      BY <1>10, <3>1 DEF InitialData
    <3> QED
      BY <1>10, <3>1, <3>2 DEF OptionsOf, Rejects, Takes
  <2>3. data = StateTakes([states |-> {}], o)
    BY <1>5, <2>1, <2>2
  <2>4. /\ data \in [states : SUBSET States]
        /\ \A packet \in Packets : packet.state \in data.states <=> OptionSays("state", o, packet)
    BY <2>1, <2>2, <2>3, StateAsked
  <2>5. data \in Blocks
    <3> HIDE DEF data
    <3> QED
      BY <2>4 DEF Blocks
  <2>6. \A packet : MatchSays(c, packet) <=> OptionSays("state", o, packet)
    <3> HIDE DEF n, args
    <3> QED
      BY <1>6, <1>10, <2>1
  <2> HIDE DEF data, element, args, n
  <2> QED
    BY <1>4, <1>7, <1>8, <1>10, <2>4, <2>5, <2>6 DEF DataSays, element, data, args
<1>11. CASE c.name = "socket"
  <2>1. n = 0
    <3> SUFFICES ASSUME n # 0 PROVE FALSE
      OBVIOUS
    <3>1. 1 \in 1..n
      BY <1>2
    <3>2. args[1].opt \in OptionsOf(x)
      BY <1>5, <3>1 DEF Taken
    <3> QED
      BY <1>11, <3>2 DEF OptionsOf
  <2>2. data = [size |-> 0]
    BY <1>5, <1>11, <2>1 DEF Taken, InitialData
  <2>3. data \in Blocks
    <3> HIDE DEF data
    <3> QED
      BY <2>2 DEF Blocks
  <2>4. \A packet : MatchSays(c, packet)
    BY <1>6, <2>1
  <2> HIDE DEF data, element, args, n
  <2> QED
    BY <1>4, <1>7, <1>8, <1>11, <2>3, <2>4 DEF DataSays, element, data, args
<1> QED
  BY <1>4, <1>9, <1>10, <1>11

-----------------------------------------------------------------------------
(* The targets.                                                            *)

\* The blocks of TPROXY and NFLOG.
TproxyBlock ==
    [port : 0..PortMax, ip : Int, value : SUBSET MarkBits, mask : SUBSET MarkBits]

NflogBlock == [group : Int, threshold : Int, range : Int, prefix : STRING \cup {None}]

\* The data are what option o asks for.
TproxyDid(data, o) ==
    /\ o.opt = "on-port" => data.port = o.arg.number
    /\ o.opt = "on-ip" => data.ip = o.arg.number
    /\ o.opt = "tproxy-mark" => data.value = o.arg.value /\ data.mask = MaskOf(o.arg)

NflogDid(data, o) ==
    /\ o.opt = "nflog-group" /\ o.arg.number < Word => data.group = o.arg.number
    /\ o.opt = "nflog-threshold" /\ o.arg.number < Word => data.threshold = o.arg.number

\* One more option of TPROXY: what the others asked for stays.
LEMMA TproxyStep ==
    ASSUME NEW d \in TproxyBlock, NEW flags, NEW o, RightKind(o), o.opt \in TproxyOptions,
           ~TproxyRejects(flags, o)
    PROVE  /\ o.opt \notin flags
           /\ TproxyTakes(d, o) \in TproxyBlock
           /\ TproxyDid(TproxyTakes(d, o), o)
           /\ \A p : p.opt \in TproxyOptions \ {o.opt} /\ TproxyDid(d, p)
                    => TproxyDid(TproxyTakes(d, o), p)
<1> DEFINE t == TproxyTakes(d, o)
<1>1. o.opt \notin flags
  BY DEF TproxyRejects
<1>2. CASE o.opt = "on-port"
  <2>1. o.arg.number \in 0..PortMax
    BY <1>2 DEF TproxyRejects, IsNumber
  <2>2. t = [d EXCEPT !.port = o.arg.number]
    BY <1>2 DEF TproxyTakes
  <2> HIDE DEF t
  <2>3. t \in TproxyBlock /\ t.port = o.arg.number
    BY <2>1, <2>2 DEF TproxyBlock
  <2>4. t.ip = d.ip /\ t.value = d.value /\ t.mask = d.mask
    BY <2>2 DEF TproxyBlock
  <2> QED
    BY <1>1, <1>2, <2>3, <2>4 DEF TproxyDid, TproxyOptions, t
<1>3. CASE o.opt = "on-ip"
  <2>1. o.arg.number \in Int
    BY <1>3 DEF TproxyRejects, RightKind
  <2>2. t = [d EXCEPT !.ip = o.arg.number]
    BY <1>3 DEF TproxyTakes
  <2> HIDE DEF t
  <2>3. t \in TproxyBlock /\ t.ip = o.arg.number
    BY <2>1, <2>2 DEF TproxyBlock
  <2>4. t.port = d.port /\ t.value = d.value /\ t.mask = d.mask
    BY <2>2 DEF TproxyBlock
  <2> QED
    BY <1>1, <1>3, <2>3, <2>4 DEF TproxyDid, TproxyOptions, t
<1>4. CASE o.opt = "tproxy-mark"
  <2>1. o.arg.value \in SUBSET MarkBits /\ MaskOf(o.arg) \in SUBSET MarkBits
    BY <1>4 DEF TproxyRejects, RightKind, MaskOf
  <2> DEFINE m == MaskOf(o.arg)
  <2> HIDE DEF m
  <2>2. t = [d EXCEPT !.value = o.arg.value, !.mask = m]
    BY <1>4 DEF TproxyTakes, m
  <2> HIDE DEF t
  <2>3. t \in TproxyBlock /\ t.value = o.arg.value /\ t.mask = m
    BY <2>1, <2>2 DEF TproxyBlock, m
  <2>4. t.port = d.port /\ t.ip = d.ip
    BY <2>2 DEF TproxyBlock
  <2> QED
    BY <1>1, <1>4, <2>3, <2>4 DEF TproxyDid, TproxyOptions, t, m
<1> QED
  BY <1>2, <1>3, <1>4 DEF TproxyOptions

\* A number that fits in the word loses nothing.
LEMMA FitsInWord == \A n \in Int : 0 <= n /\ n < Word => n % Word = n
  BY OptionsAssumption

\* What fits in 16 bits is not changed by them.
LEMMA WordRemainder == \A n \in Int : n % Word \in Int
  BY OptionsAssumption

\* One more option of NFLOG.
LEMMA NflogStep ==
    ASSUME NEW d \in NflogBlock, NEW flags, NEW o, RightKind(o), o.opt \in NflogOptions,
           ~NflogRejects(flags, o)
    PROVE  /\ o.opt \notin flags
           /\ NflogTakes(d, o) \in NflogBlock
           /\ NflogDid(NflogTakes(d, o), o)
           /\ \A p : p.opt \in NflogOptions \ {o.opt} /\ NflogDid(d, p)
                    => NflogDid(NflogTakes(d, o), p)
<1> DEFINE t == NflogTakes(d, o)
           n == o.arg.number
<1>1. o.opt \notin flags
  BY DEF NflogRejects
<1>2. o.opt \in {"nflog-group", "nflog-range", "nflog-threshold"} => n \in Int /\ Atoi(n) = n
  BY DEF RightKind, Atoi
<1> HIDE DEF n
<1>3. CASE o.opt = "nflog-group"
  <2>1. n \in Int /\ 0 <= n
    BY <1>2, <1>3 DEF NflogRejects, n
  <2> DEFINE r == n % Word
  <2>2. r \in Int /\ (n < Word => r = n)
    BY <2>1, FitsInWord, WordRemainder
  <2>3. t = [d EXCEPT !.group = r]
    BY <1>2, <1>3 DEF NflogTakes, n
  <2> HIDE DEF t, r
  <2>4. t \in NflogBlock /\ t.group = r
    BY <2>2, <2>3 DEF NflogBlock
  <2>5. t.threshold = d.threshold
    BY <2>3 DEF NflogBlock
  <2>6. NflogDid(t, o)
    BY <1>3, <2>2, <2>4 DEF NflogDid, n
  <2>7. \A p : p.opt \in NflogOptions \ {o.opt} /\ NflogDid(d, p) => NflogDid(t, p)
    BY <1>3, <2>5 DEF NflogDid
  <2> QED
    BY <1>1, <2>4, <2>6, <2>7 DEF t
<1>4. CASE o.opt = "nflog-threshold"
  <2>1. n \in Int /\ 0 <= n
    <3>1. n \in Int /\ ~(n < 1)
      BY <1>2, <1>4 DEF NflogRejects, n
    <3> QED
      BY <3>1
  <2> DEFINE r == n % Word
  <2>2. r \in Int /\ (n < Word => r = n)
    BY <2>1, FitsInWord, WordRemainder
  <2>3. t = [d EXCEPT !.threshold = r]
    BY <1>2, <1>4 DEF NflogTakes, n
  <2> HIDE DEF t, r
  <2>4. t \in NflogBlock /\ t.threshold = r
    BY <2>2, <2>3 DEF NflogBlock
  <2>5. t.group = d.group
    BY <2>3 DEF NflogBlock
  <2>6. NflogDid(t, o)
    BY <1>4, <2>2, <2>4 DEF NflogDid, n
  <2>7. \A p : p.opt \in NflogOptions \ {o.opt} /\ NflogDid(d, p) => NflogDid(t, p)
    BY <1>4, <2>5 DEF NflogDid
  <2> QED
    BY <1>1, <2>4, <2>6, <2>7 DEF t
<1>5. CASE o.opt \in {"nflog-range", "nflog-prefix"}
  <2>1. t \in NflogBlock /\ t.group = d.group /\ t.threshold = d.threshold
    <3>1. CASE o.opt = "nflog-range"
      <4>1. t = [d EXCEPT !.range = n]
        BY <1>2, <3>1 DEF NflogTakes, n
      <4>2. n \in Int
        BY <1>2, <3>1
      <4> HIDE DEF t
      <4> QED
        BY <4>1, <4>2 DEF NflogBlock
    <3>2. CASE o.opt = "nflog-prefix"
      <4>1. t = [d EXCEPT !.prefix = o.arg.prefix]
        BY <3>2 DEF NflogTakes
      <4>2. o.arg.prefix \in STRING \cup {None}
        BY <3>2 DEF RightKind, NflogRejects
      <4> HIDE DEF t
      <4> QED
        BY <4>1, <4>2 DEF NflogBlock
    <3> QED
      BY <1>5, <3>1, <3>2
  <2> HIDE DEF t
  <2>2. NflogDid(t, o)
    BY <1>5 DEF NflogDid
  <2>3. \A p : NflogDid(d, p) => NflogDid(t, p)
    BY <2>1 DEF NflogDid
  <2> QED
    BY <1>1, <2>1, <2>2, <2>3 DEF t
<1> QED
  BY <1>3, <1>4, <1>5 DEF NflogOptions

\* The data are what every option of TPROXY asks for, each of which occurs once.
LEMMA TproxyAsked ==
    ASSUME NEW x, x.name = "TPROXY", NEW S, NEW args \in Seq(S), NEW d, NEW w,
           Taken(d, w, x, args), \A i \in 1..Len(args) : RightKind(args[i])
    PROVE  /\ d[Len(args)] \in TproxyBlock
           /\ \A i \in 1..Len(args) :
                 args[i].opt \in TproxyOptions /\ TproxyDid(d[Len(args)], args[i])
<1> DEFINE n == Len(args)
           Does(i) == \A j \in 1..i : TproxyDid(d[i], args[j])
           G == {i \in 0..n : d[i] \in TproxyBlock /\ Does(i)}
<1>1. n \in Nat
  OBVIOUS
<1>2. \A i \in 0..n : \A j \in 1..i : args[j].opt \in w[i]
  <2>1. \A i \in 0..n : \A j \in 1..i : FlagOf(x, args[j]) \in w[i]
    BY FlagsTaken
  <2>2. \A o : FlagOf(x, o) = o.opt
    BY DEF FlagOf
  <2> QED
    BY <2>1, <2>2
<1>3. ASSUME NEW i \in 1..n
      PROVE  /\ args[i].opt \in TproxyOptions /\ ~TproxyRejects(w[i - 1], args[i])
             /\ d[i] = TproxyTakes(d[i - 1], args[i])
  <2>1. /\ args[i].opt \in OptionsOf(x) /\ ~Rejects(x, w[i - 1], args[i])
        /\ d[i] = Takes(x, d[i - 1], args[i])
    BY DEF Taken
  <2> QED
    BY <2>1 DEF OptionsOf, Rejects, Takes
<1> HIDE DEF n
<1>4. 0 \in G
  <2>1. d[0] = TproxyInit
    BY DEF Taken, InitialData
  <2>2. TproxyInit \in TproxyBlock
    <3>1. PortMax \in Nat
      BY OptionsAssumption, Zenon
    <3> QED
      BY <3>1 DEF TproxyInit, TproxyBlock
  <2>3. Does(0)
    OBVIOUS
  <2>4. 0 \in 0..n /\ d[0] \in TproxyBlock
    BY <1>1, <2>1, <2>2
  <2> HIDE DEF Does
  <2> QED
    BY <2>3, <2>4
<1>5. ASSUME NEW i \in 1..n, i - 1 \in G PROVE i \in G
  <2> DEFINE o == args[i]
             b == d[i - 1]
             f == w[i - 1]
             t == TproxyTakes(b, o)
  <2>1. b \in TproxyBlock /\ Does(i - 1)
    BY <1>5
  <2>2. /\ o.opt \in TproxyOptions /\ ~TproxyRejects(f, o) /\ d[i] = t
    BY <1>3
  <2>3. RightKind(o)
    BY DEF n
  <2>4. (\A j \in 1..(i - 1) : args[j].opt \in f) /\ i \in 0..n /\ 1..i = (1..(i - 1)) \cup {i}
    BY <1>1, <1>2
  <2> HIDE DEF b, f, o, t
  <2>5. /\ o.opt \notin f
        /\ t \in TproxyBlock /\ TproxyDid(t, o)
        /\ \A p : p.opt \in TproxyOptions \ {o.opt} /\ TproxyDid(b, p) => TproxyDid(t, p)
    BY <2>1, <2>2, <2>3, TproxyStep DEF t
  <2>6. ASSUME NEW j \in 1..i PROVE TproxyDid(d[i], args[j])
    <3>1. CASE j = i
      BY <2>2, <2>5, <3>1 DEF o
    <3>2. CASE j # i
      <4>1. j \in 1..(i - 1) /\ j \in 1..n
        BY <1>1, <3>2
      <4> DEFINE p == args[j]
      <4>2. p.opt \in TproxyOptions /\ TproxyDid(b, p) /\ p.opt \in f
        BY <1>3, <2>1, <2>4, <4>1 DEF b
      <4> HIDE DEF p
      <4>3. TproxyDid(t, p)
        BY <2>5, <4>2
      <4> QED
        BY <2>2, <4>3 DEF p
    <3> QED
      BY <3>1, <3>2
  <2>7. Does(i) /\ d[i] \in TproxyBlock
    BY <2>2, <2>5, <2>6
  <2> HIDE DEF Does
  <2> QED
    BY <2>4, <2>7
<1> HIDE DEF G
<1>6. \A i \in 0..n : i \in G
  BY <1>4, <1>5, TakenUpTo DEF n
<1>7. n \in G
  BY <1>1, <1>6
<1> QED
  BY <1>3, <1>7 DEF G, n

\* The same of NFLOG.
LEMMA NflogAsked ==
    ASSUME NEW x, x.name = "NFLOG", NEW S, NEW args \in Seq(S), NEW d, NEW w,
           Taken(d, w, x, args), \A i \in 1..Len(args) : RightKind(args[i])
    PROVE  /\ d[Len(args)] \in NflogBlock
           /\ \A i \in 1..Len(args) :
                 args[i].opt \in NflogOptions /\ NflogDid(d[Len(args)], args[i])
<1> DEFINE n == Len(args)
           Does(i) == \A j \in 1..i : NflogDid(d[i], args[j])
           G == {i \in 0..n : d[i] \in NflogBlock /\ Does(i)}
<1>1. n \in Nat
  OBVIOUS
<1>2. \A i \in 0..n : \A j \in 1..i : args[j].opt \in w[i]
  <2>1. \A i \in 0..n : \A j \in 1..i : FlagOf(x, args[j]) \in w[i]
    BY FlagsTaken
  <2>2. \A o : FlagOf(x, o) = o.opt
    BY DEF FlagOf
  <2> QED
    BY <2>1, <2>2
<1>3. ASSUME NEW i \in 1..n
      PROVE  /\ args[i].opt \in NflogOptions /\ ~NflogRejects(w[i - 1], args[i])
             /\ d[i] = NflogTakes(d[i - 1], args[i])
  <2>1. /\ args[i].opt \in OptionsOf(x) /\ ~Rejects(x, w[i - 1], args[i])
        /\ d[i] = Takes(x, d[i - 1], args[i])
    BY DEF Taken
  <2> QED
    BY <2>1 DEF OptionsOf, Rejects, Takes
<1> HIDE DEF n
<1>4. 0 \in G
  <2>1. d[0] = NflogInit
    BY DEF Taken, InitialData
  <2>2. NflogInit \in NflogBlock
    <3>1. PortMax \in Nat
      BY OptionsAssumption, Zenon
    <3> QED
      BY <3>1 DEF NflogInit, NflogBlock
  <2>3. Does(0)
    OBVIOUS
  <2>4. 0 \in 0..n /\ d[0] \in NflogBlock
    BY <1>1, <2>1, <2>2
  <2> HIDE DEF Does
  <2> QED
    BY <2>3, <2>4
<1>5. ASSUME NEW i \in 1..n, i - 1 \in G PROVE i \in G
  <2> DEFINE o == args[i]
             b == d[i - 1]
             f == w[i - 1]
             t == NflogTakes(b, o)
  <2>1. b \in NflogBlock /\ Does(i - 1)
    BY <1>5
  <2>2. /\ o.opt \in NflogOptions /\ ~NflogRejects(f, o) /\ d[i] = t
    BY <1>3
  <2>3. RightKind(o)
    BY DEF n
  <2>4. (\A j \in 1..(i - 1) : args[j].opt \in f) /\ i \in 0..n /\ 1..i = (1..(i - 1)) \cup {i}
    BY <1>1, <1>2
  <2> HIDE DEF b, f, o, t
  <2>5. /\ o.opt \notin f
        /\ t \in NflogBlock /\ NflogDid(t, o)
        /\ \A p : p.opt \in NflogOptions \ {o.opt} /\ NflogDid(b, p) => NflogDid(t, p)
    BY <2>1, <2>2, <2>3, NflogStep DEF t
  <2>6. ASSUME NEW j \in 1..i PROVE NflogDid(d[i], args[j])
    <3>1. CASE j = i
      BY <2>2, <2>5, <3>1 DEF o
    <3>2. CASE j # i
      <4>1. j \in 1..(i - 1) /\ j \in 1..n
        BY <1>1, <3>2
      <4> DEFINE p == args[j]
      <4>2. p.opt \in NflogOptions /\ NflogDid(b, p) /\ p.opt \in f
        BY <1>3, <2>1, <2>4, <4>1 DEF b
      <4> HIDE DEF p
      <4>3. NflogDid(t, p)
        BY <2>5, <4>2
      <4> QED
        BY <2>2, <4>3 DEF p
    <3> QED
      BY <3>1, <3>2
  <2>7. Does(i) /\ d[i] \in NflogBlock
    BY <2>2, <2>5, <2>6
  <2> HIDE DEF Does
  <2> QED
    BY <2>4, <2>7
<1> HIDE DEF G
<1>6. \A i \in 0..n : i \in G
  BY <1>4, <1>5, TakenUpTo DEF n
<1>7. n \in G
  BY <1>1, <1>6
<1> QED
  BY <1>3, <1>7 DEF G, n

\* What MARK leaves for the kernel is one of its blocks.
LEMMA MarkBlock ==
    ASSUME NEW revision \in 0..2, NEW o, o.opt \in MarkOptions(revision), RightKind(o),
           ~MarkRejects(revision, {}, o)
    PROVE  /\ MarkTakes(revision, o) \in Blocks
           /\ o.arg.value \in SUBSET MarkBits
           /\ o.arg.mask = None \/ o.arg.mask \in SUBSET MarkBits
<1> DEFINE v == o.arg.value
           m == MaskOf(o.arg)
           t == MarkTakes(revision, o)
<1>1. /\ o.arg # Bad /\ o.opt \in MarkOptions(2)
      /\ revision < 2 => o.opt \in {"set-mark", "and-mark", "or-mark"}
  BY DEF MarkRejects, MarkOptions
<1>2. v \in SUBSET MarkBits /\ (o.arg.mask = None \/ o.arg.mask \in SUBSET MarkBits)
  BY <1>1 DEF RightKind
<1>3. m \in SUBSET MarkBits
  BY <1>2 DEF MaskOf
<1> HIDE DEF m, v
<1>4. CASE revision = 0
  <2>1. t = [mark |-> v]
    BY <1>4 DEF MarkTakes, v
  <2>2. t \in [mark : SUBSET MarkBits]
    BY <1>2, <2>1 DEF v
  <2> HIDE DEF t
  <2> QED
    BY <1>2, <2>2 DEF t, v, Blocks
<1>5. CASE revision = 1
  <2>1. t = [mode |-> o.opt, mark |-> v]
    BY <1>5 DEF MarkTakes, v
  <2>2. t \in [mode : {"set-mark", "and-mark", "or-mark"}, mark : SUBSET MarkBits]
    BY <1>1, <1>2, <1>5, <2>1 DEF v
  <2> HIDE DEF t
  <2> QED
    BY <1>2, <2>2 DEF t, v, Blocks
<1>6. CASE revision = 2
  <2>1. \E a, b \in SUBSET MarkBits : t = [mark |-> a, mask |-> b]
    <3>1. o.opt \in {"set-xmark", "set-mark", "and-mark", "or-mark", "xor-mark"}
      BY <1>1 DEF MarkOptions
    <3>2. CASE o.opt = "set-xmark"
      <4>1. t = [mark |-> v, mask |-> m]
        BY <1>6, <3>2 DEF MarkTakes, v, m
      <4> QED
        BY <1>2, <1>3, <4>1 DEF v
    <3>3. CASE o.opt = "set-mark"
      <4>1. t = [mark |-> v, mask |-> v \cup m]
        BY <1>6, <3>3 DEF MarkTakes, v, m
      <4>2. v \cup m \in SUBSET MarkBits
        BY <1>2, <1>3 DEF v
      <4> QED
        BY <1>2, <4>1, <4>2 DEF v
    <3>4. CASE o.opt = "and-mark"
      <4>1. t = [mark |-> {}, mask |-> MarkBits \ v]
        BY <1>6, <3>4 DEF MarkTakes, v
      <4>2. MarkBits \ v \in SUBSET MarkBits /\ {} \in SUBSET MarkBits
        OBVIOUS
      <4> QED
        BY <4>1, <4>2
    <3>5. CASE o.opt = "or-mark"
      <4>1. t = [mark |-> v, mask |-> v]
        BY <1>6, <3>5 DEF MarkTakes, v
      <4> QED
        BY <1>2, <4>1 DEF v
    <3>6. CASE o.opt = "xor-mark"
      <4>1. t = [mark |-> v, mask |-> {}]
        BY <1>6, <3>6 DEF MarkTakes, v
      <4>2. {} \in SUBSET MarkBits
        OBVIOUS
      <4> QED
        BY <1>2, <4>1, <4>2 DEF v
    <3> QED
      BY <3>1, <3>2, <3>3, <3>4, <3>5, <3>6
  <2>2. t \in [mark : SUBSET MarkBits, mask : SUBSET MarkBits]
    <3> HIDE DEF t
    <3> QED
      BY <2>1
  <2> HIDE DEF t
  <2> QED
    BY <1>2, <2>2 DEF t, v, Blocks
<1> QED
  BY <1>4, <1>5, <1>6

\* MARK takes at most one option, and does what it says.
LEMMA MarkAsked ==
    ASSUME NEW x, x.name = "MARK", x.revision \in 0..2, NEW S, NEW args \in Seq(S), NEW d, NEW w,
           Taken(d, w, x, args), \A i \in 1..Len(args) : RightKind(args[i])
    PROVE  /\ d[Len(args)] \in Blocks
           /\ \A i \in 1..Len(args) : \A b \in SUBSET MarkBits :
                 Marked(x.revision, d[Len(args)], b) = MarkSays(args[i], b)
<1> DEFINE n == Len(args)
           revision == x.revision
<1>1. n \in Nat /\ revision \in 0..2
  OBVIOUS
<1>2. ASSUME NEW i \in 1..n
      PROVE  /\ args[i].opt \in MarkOptions(revision)
             /\ ~MarkRejects(revision, w[i - 1], args[i])
             /\ d[i] = MarkTakes(revision, args[i])
             /\ args[i].opt \in w[i]
  <2>1. /\ args[i].opt \in OptionsOf(x) /\ ~Rejects(x, w[i - 1], args[i])
        /\ d[i] = Takes(x, d[i - 1], args[i])
        /\ w[i] = w[i - 1] \cup {FlagOf(x, args[i])}
    BY DEF Taken
  <2> QED
    BY <2>1 DEF OptionsOf, Rejects, Takes, FlagOf
<1>3. n <= 1
  <2> SUFFICES ASSUME ~(n <= 1) PROVE FALSE
    OBVIOUS
  <2>1. 1 \in 1..n /\ 2 \in 1..n /\ 2 - 1 = 1
    BY <1>1
  <2>2. args[1].opt \in w[1] /\ ~MarkRejects(revision, w[2 - 1], args[2])
    BY <1>2, <2>1
  <2> QED
    BY <2>1, <2>2 DEF MarkRejects
<1>4. CASE n = 0
  <2>1. d[n] = MarkInit(revision)
    BY <1>4 DEF Taken, InitialData
  <2> HIDE DEF revision
  <2> DEFINE a == MarkInit(revision)
  <2>2. \/ a \in [mark : SUBSET MarkBits]
        \/ a \in [mode : {"set-mark", "and-mark", "or-mark"}, mark : SUBSET MarkBits]
        \/ a \in [mark : SUBSET MarkBits, mask : SUBSET MarkBits]
    <3>1. {} \in SUBSET MarkBits
      OBVIOUS
    <3>2. CASE revision = 0
      <4>1. a = [mark |-> {}]
        BY <3>2 DEF MarkInit
      <4> QED
        BY <3>1, <4>1
    <3>3. CASE revision = 1
      <4>1. a = [mode |-> "set-mark", mark |-> {}]
        BY <3>3 DEF MarkInit
      <4> QED
        BY <3>1, <4>1
    <3>4. CASE revision = 2
      <4>1. a = [mark |-> {}, mask |-> {}]
        BY <3>4 DEF MarkInit
      <4> QED
        BY <3>1, <4>1
    <3> QED
      BY <1>1, <3>2, <3>3, <3>4
  <2> HIDE DEF a
  <2>3. a \in Blocks
    BY <2>2 DEF Blocks
  <2>4. d[n] \in Blocks
    BY <2>1, <2>3 DEF a
  <2> QED
    BY <1>4, <2>4
<1>5. CASE n = 1
  <2> DEFINE o == args[1]
  <2>1. 1 \in 1..n /\ 1 - 1 = 0 /\ RightKind(o)
    BY <1>5
  <2>2. /\ o.opt \in MarkOptions(revision)
        /\ ~MarkRejects(revision, {}, o)
        /\ d[1] = MarkTakes(revision, o)
    <3>1. w[0] = {}
      BY DEF Taken
    <3> QED
      BY <1>2, <2>1, <3>1
  <2> HIDE DEF o, revision
  <2>3. MarkTakes(revision, o) \in Blocks
    BY <1>1, <2>1, <2>2, MarkBlock
  <2>4. o.arg.value \in SUBSET MarkBits /\ (o.arg.mask = None \/ o.arg.mask \in SUBSET MarkBits)
    BY <1>1, <2>1, <2>2, MarkBlock
  <2>5. \A b \in SUBSET MarkBits :
            Marked(revision, MarkTakes(revision, o), b) = MarkSays(o, b)
    BY <1>1, <2>2, <2>4, MarkDoesWhatItSays
  <2>6. \A i \in 1..n : i = 1
    BY <1>5
  <2> QED
    BY <1>5, <2>2, <2>3, <2>5, <2>6 DEF o, revision
<1> HIDE DEF n, revision
<1>6. n = 0 \/ n = 1
  BY <1>1, <1>3
<1> QED
  BY <1>4, <1>5, <1>6 DEF n, revision

\* A target has data of its own, which do what its call asked for.
TargetSays(c, x, data) ==
    /\ data \in Blocks
    /\ TargetDoes([name |-> c.name, revision |-> x.revision,
                   size |-> ElementSize[x.name], data |-> data], c)

\* A target of any kind does what its options say.
LEMMA TargetAsked ==
    ASSUME SensibleCalls, NEW c \in TargetCalls, NEW x \in Range(Builtin),
           x.kind = "target", x.name \in {c.name, "standard"},
           NEW e, ~Parse(x, {}, e, c.args).raised
    PROVE  TargetSays(c, x, Parse(x, {}, e, c.args).data)
<1> DEFINE args == c.args
           n == Len(args)
           data == Parse(x, {}, e, args).data
           element == [name |-> c.name, revision |-> x.revision,
                       size |-> ElementSize[x.name], data |-> data]
           S == Range(args)
           Does(o) ==
               CASE c.name = "MARK" ->
                       \A b \in SUBSET MarkBits : Marked(x.revision, data, b) = MarkSays(o, b)
                 [] o.opt = "on-port" -> data.port = o.arg.number
                 [] o.opt = "on-ip" -> data.ip = o.arg.number
                 [] o.opt = "tproxy-mark" ->
                       data.value = o.arg.value /\ data.mask = MaskOf(o.arg)
                 [] o.opt = "nflog-group" /\ o.arg.number < Word -> data.group = o.arg.number
                 [] o.opt = "nflog-threshold" /\ o.arg.number < Word ->
                       data.threshold = o.arg.number
                 [] OTHER -> TRUE
<1>1. c.name \in STRING /\ args \in Seq(S)
  BY EntriesAssumption, Zenon
<1> HIDE DEF S
<1>2. n \in Nat /\ DOMAIN args = 1..n
  BY <1>1
<1>3. \A i \in 1..n : RightKind(args[i])
  BY <1>2 DEF SensibleCalls
<1>4. x.name \in {"standard", "TPROXY", "MARK", "NFLOG"} /\ x.revision \in 0..2
  BY ExtensionNames
<1>5. PICK d, w : Taken(d, w, x, args) /\ data = d[n]
  <2>1. ~Parse(x, {}, e, args).raised
    OBVIOUS
  <2> HIDE DEF args
  <2>2. \E d, w : Taken(d, w, x, args) /\ Parse(x, {}, e, args).data = d[Len(args)]
    BY <1>1, <2>1, ParseTakes
  <2> QED
    BY <2>2
<1>6. ASSUME data \in Blocks, \A i \in 1..n : Does(args[i])
      PROVE  TargetSays(c, x, data)
  <2>1. x.name \in DOMAIN ElementSize
    BY <1>4 DEF ElementSize
  <2>2. element # Undefined /\ data # Undefined
    <3> HIDE DEF data
    <3> QED
      BY <1>1, <1>4, <1>6, <2>1, ElementIsOne, BlockIsData
  <2>3. /\ element.data = data /\ element.name = c.name /\ element.revision = x.revision
    OBVIOUS
  <2> HIDE DEF element, data
  <2>4. TargetDoes(element, c)
    BY <1>2, <1>6, <2>2, <2>3 DEF TargetDoes
  <2> QED
    BY <1>6, <2>4 DEF TargetSays, element, data
<1>7. CASE x.name = "standard"
  <2>1. n = 0
    <3> SUFFICES ASSUME n # 0 PROVE FALSE
      OBVIOUS
    <3>1. 1 \in 1..n
      BY <1>2
    <3>2. args[1].opt \in OptionsOf(x)
      BY <1>5, <3>1 DEF Taken
    <3> QED
      BY <1>7, <3>2 DEF OptionsOf
  <2>2. data = [size |-> 0]
    BY <1>5, <1>7, <2>1 DEF Taken, InitialData
  <2>3. data \in Blocks
    <3> HIDE DEF data
    <3> QED
      BY <2>2 DEF Blocks
  <2> QED
    BY <1>6, <2>1, <2>3
<1>8. CASE x.name = c.name /\ c.name = "MARK"
  <2>1. /\ data \in Blocks
        /\ \A i \in 1..n : \A b \in SUBSET MarkBits :
              Marked(x.revision, data, b) = MarkSays(args[i], b)
    <3> HIDE DEF args, data
    <3>1. /\ d[Len(args)] \in Blocks
          /\ \A i \in 1..Len(args) : \A b \in SUBSET MarkBits :
                Marked(x.revision, d[Len(args)], b) = MarkSays(args[i], b)
      <4>1. x.name = "MARK" /\ x.revision \in 0..2
        BY <1>4, <1>8
      <4> QED
        BY <1>1, <1>3, <1>5, <4>1, MarkAsked
    <3> QED
      BY <1>5, <3>1
  <2>2. \A i \in 1..n : args[i].opt \in MarkOptions(x.revision)
    BY <1>5, <1>8 DEF Taken, OptionsOf
  <2>3. \A i \in 1..n : Does(args[i])
    <3> HIDE DEF data, args, n
    <3> QED
      BY <1>8, <2>1, <2>2 DEF MarkOptions
  <2> QED
    BY <1>6, <2>1, <2>3
<1>9. CASE x.name = c.name /\ c.name = "TPROXY"
  <2>1. /\ data \in TproxyBlock
        /\ \A i \in 1..n : args[i].opt \in TproxyOptions /\ TproxyDid(data, args[i])
    <3> HIDE DEF args
    <3> QED
      BY <1>1, <1>3, <1>5, <1>9, TproxyAsked
  <2> HIDE DEF data, args, n
  <2>2. data \in Blocks
    BY <2>1 DEF TproxyBlock, Blocks
  <2>3. \A i \in 1..n : Does(args[i])
    BY <1>9, <2>1 DEF TproxyDid, TproxyOptions
  <2>4. TargetSays(c, x, data)
    BY <1>6, <2>2, <2>3
  <2> QED
    BY <2>4 DEF data, args
<1>10. CASE x.name = c.name /\ c.name = "NFLOG"
  <2>1. /\ data \in NflogBlock
        /\ \A i \in 1..n : args[i].opt \in NflogOptions /\ NflogDid(data, args[i])
    <3> HIDE DEF args
    <3> QED
      BY <1>1, <1>3, <1>5, <1>10, NflogAsked
  <2> HIDE DEF data, args, n
  <2>2. data \in Blocks
    BY <2>1 DEF NflogBlock, Blocks
  <2>3. \A i \in 1..n : Does(args[i])
    BY <1>10, <2>1 DEF NflogDid, NflogOptions
  <2>4. TargetSays(c, x, data)
    BY <1>6, <2>2, <2>3
  <2> QED
    BY <2>4 DEF data, args
<1> QED
  BY <1>4, <1>7, <1>8, <1>9, <1>10

-----------------------------------------------------------------------------
(* What the objects hold.                                                  *)

\* Match o in slot s: its structure, among m, is its own or the registered one
\* of its name, and what is there agrees on every packet with what was asked.
HoldsMatch(o, s, m) ==
    /\ {"call", "at"} \subseteq DOMAIN o
    /\ o.call \in MatchCalls
    /\ o.call.name \in {"tcp", "state", "socket"}
    /\ o.at \in {o.call.name, s}
    /\ DataSays(o.call, m[o.at].data)

HoldsTarget(o) ==
    /\ {"call", "extension", "data"} \subseteq DOMAIN o
    /\ o.call \in TargetCalls
    /\ o.extension \in Range(Builtin)
    /\ o.extension.kind = "target"
    /\ TargetSays(o.call, o.extension, o.data)

\* An entry has the addresses and the interface it was made with.
HoldsEntry(o) ==
    /\ {"call", "address", "mask", "interface"} \subseteq DOMAIN o
    /\ o.call \in EntryCalls
    /\ o.interface = [name |-> o.call.interface, mask |-> InterfaceMask(o.call.interface)]
    /\ Names(o, 1, o.call.source)
    /\ Names(o, 2, o.call.destination)

Holds(o, s, m) ==
    /\ "kind" \in DOMAIN o
    /\ o.kind = "match" => HoldsMatch(o, s, m)
    /\ o.kind = "target" => HoldsTarget(o)
    /\ o.kind = "entry" => HoldsEntry(o)

\* The invariant: in the heap h with the structures m each object holds what
\* was asked for, and no two matches have the same structure.
AsAsked(h, m) ==
    /\ DOMAIN h = Slots
    /\ DOMAIN m = {"tcp", "state", "socket"} \cup Slots
    /\ \A s \in Slots : Holds(h[s], s, m)
    /\ \A s, t \in Slots :
          h[s].kind = "match" /\ h[t].kind = "match" /\ h[s].at = h[t].at => s = t

\* An object that is not there any more.
Gone(o) == "kind" \in DOMAIN o /\ o.kind = "nothing"

\* Object o as p, with other references to it and others of its own.
Same(o, p) ==
    /\ DOMAIN p = DOMAIN o
    /\ \A f \in DOMAIN o \ {"refs", "matches", "target"} : p[f] = o[f]

\* Every object of h is in h2 what it was, or not there.
Lasts(h, h2) ==
    /\ DOMAIN h2 = Slots
    /\ \A s \in Slots : Gone(h2[s]) \/ Same(h[s], h2[s])

\* Nothing is not there.
LEMMA NothingGone == Gone(Nothing)
  BY DEF Gone, Nothing

\* What lasts through two changes lasts through both.
LEMMA LastsOn ==
    ASSUME NEW h, NEW h1, NEW h2, \A s \in Slots : "kind" \in DOMAIN h[s],
           Lasts(h, h1), Lasts(h1, h2)
    PROVE  Lasts(h, h2)
<1>1. ASSUME NEW s \in Slots, ~Gone(h2[s]) PROVE Same(h[s], h2[s])
  <2>1. Same(h1[s], h2[s])
    BY <1>1 DEF Lasts
  <2>2. ~Gone(h1[s])
    BY <1>1, <2>1 DEF Gone, Same
  <2>3. Same(h[s], h1[s])
    BY <2>2 DEF Lasts
  <2> QED
    BY <2>1, <2>3 DEF Same
<1> QED
  BY <1>1 DEF Lasts

\* One object changes.
LEMMA LastsChanged ==
    ASSUME NEW h, DOMAIN h = Slots, NEW e \in Slots, NEW o, Gone(o) \/ Same(h[e], o)
    PROVE  Lasts(h, [h EXCEPT ![e] = o])
  BY DEF Lasts, Same

\* References come and go.
LEMMA SameRefs ==
    ASSUME NEW o, NEW v
    PROVE  /\ Same(o, [o EXCEPT !.refs = v])
           /\ Same(o, [o EXCEPT !.matches = v])
           /\ Same(o, [o EXCEPT !.target = v])
  BY DEF Same

\* A reference more changes no object otherwise.
LEMMA IncRefLasts ==
    ASSUME NEW h, DOMAIN h = Slots, NEW x \in Slots
    PROVE  Lasts(h, IncRef(h, x))
<1> DEFINE o == [h[x] EXCEPT !.refs = h[x].refs + 1]
<1>1. IncRef(h, x) = [h EXCEPT ![x] = o]
  BY DEF IncRef
<1>2. Same(h[x], o)
  BY SameRefs
<1> HIDE DEF o
<1>3. Lasts(h, [h EXCEPT ![x] = o])
  BY <1>2, LastsChanged
<1> QED
  BY <1>1, <1>3

\* A reference less changes no object otherwise, or frees it.
LEMMA DecRefLasts ==
    ASSUME NEW h, DOMAIN h = Slots, NEW x \in Slots
    PROVE  Lasts(h, DecRef(h, x))
<1> DEFINE o == [h[x] EXCEPT !.refs = h[x].refs - 1]
<1>1. DecRef(h, x) = [h EXCEPT ![x] = Nothing] \/ DecRef(h, x) = [h EXCEPT ![x] = o]
  BY DEF DecRef
<1>2. Same(h[x], o) /\ Gone(Nothing)
  BY SameRefs, NothingGone
<1> HIDE DEF o
<1> QED
  BY <1>1, <1>2, LastsChanged

\* Nor do the references Generate takes.
LEMMA TwiceLasts ==
    ASSUME NEW h, DOMAIN h = Slots, \A s \in Slots : "kind" \in DOMAIN h[s],
           NEW q \in Seq(Slots), IsInjective(q)
    PROVE  Lasts(h, Twice(h, q))
<1>1. /\ DOMAIN Twice(h, q) = Slots
      /\ \A x \in Slots :
            Twice(h, q)[x] = IF Contains(q, x) THEN IncRef(IncRef(h, x), x)[x] ELSE h[x]
  BY IncRefAll
<1>2. ASSUME NEW x \in Slots PROVE Lasts(h, IncRef(IncRef(h, x), x))
  <2> DEFINE h1 == IncRef(h, x)
  <2>1. Lasts(h, h1)
    BY IncRefLasts
  <2> HIDE DEF h1
  <2>2. Lasts(h1, IncRef(h1, x))
    BY <2>1, IncRefLasts DEF Lasts
  <2>3. Lasts(h, IncRef(h1, x))
    BY <2>1, <2>2, LastsOn
  <2> QED
    BY <2>3 DEF h1
<1>3. \A x : Same(h[x], h[x])
  BY DEF Same
<1> QED
  BY <1>1, <1>2, <1>3 DEF Lasts

\* Nor do those a freed entry lets go of.
LEMMA DroppedLasts ==
    ASSUME NEW h, DOMAIN h = Slots, NEW q \in Seq(Slots), IsInjective(q)
    PROVE  Lasts(h, Dropped(h, q))
<1>1. /\ DOMAIN Dropped(h, q) = Slots
      /\ \A x \in Slots :
            Dropped(h, q)[x] = IF Contains(q, x) THEN DecRef(h, x)[x] ELSE h[x]
  BY DroppedIs
<1>2. \A x \in Slots : Lasts(h, DecRef(h, x))
  BY DecRefLasts
<1>3. \A x : Same(h[x], h[x])
  BY DEF Same
<1> QED
  BY <1>1, <1>2, <1>3 DEF Lasts

\* What lasts holds what it held, if the structures of its matches do.
LEMMA HoldsStill ==
    ASSUME NEW o, NEW p, Same(o, p), NEW s, NEW m, NEW m2, Holds(o, s, m),
           o.kind = "match" => m2[o.at] = m[o.at]
    PROVE  Holds(p, s, m2) /\ p.kind = o.kind /\ (o.kind = "match" => p.at = o.at)
<1>1. "kind" \in DOMAIN p /\ p.kind = o.kind
  BY DEF Holds, Same
<1>2. ASSUME o.kind = "match" PROVE HoldsMatch(p, s, m2) /\ p.at = o.at
  <2>1. HoldsMatch(o, s, m) /\ m2[o.at] = m[o.at]
    BY <1>2 DEF Holds
  <2>2. p.call = o.call /\ p.at = o.at /\ {"call", "at"} \subseteq DOMAIN p
    BY <2>1 DEF HoldsMatch, Same
  <2> QED
    BY <2>1, <2>2 DEF HoldsMatch
<1>3. ASSUME o.kind = "target" PROVE HoldsTarget(p)
  <2>1. HoldsTarget(o)
    BY <1>3 DEF Holds
  <2>2. /\ p.call = o.call /\ p.extension = o.extension /\ p.data = o.data
        /\ {"call", "extension", "data"} \subseteq DOMAIN p
    BY <2>1 DEF HoldsTarget, Same
  <2> QED
    BY <2>1, <2>2 DEF HoldsTarget
<1>4. ASSUME o.kind = "entry" PROVE HoldsEntry(p)
  <2>1. HoldsEntry(o)
    BY <1>4 DEF Holds
  <2>2. /\ p.call = o.call /\ p.address = o.address /\ p.mask = o.mask
        /\ p.interface = o.interface
        /\ {"call", "address", "mask", "interface"} \subseteq DOMAIN p
    BY <2>1 DEF HoldsEntry, Same
  <2> QED
    BY <2>1, <2>2 DEF HoldsEntry, Names
<1> QED
  BY <1>1, <1>2, <1>3, <1>4 DEF Holds

\* The invariant holds still for what lasts.
LEMMA LastsAsked ==
    ASSUME NEW h, NEW m, AsAsked(h, m), NEW h2, Lasts(h, h2), NEW m2, DOMAIN m2 = DOMAIN m,
           \A s \in Slots : h2[s].kind = "match" => m2[h[s].at] = m[h[s].at]
    PROVE  AsAsked(h2, m2)
<1>1. ASSUME NEW s \in Slots
      PROVE  /\ Holds(h2[s], s, m2)
             /\ h2[s].kind = "match" => h[s].kind = "match" /\ h2[s].at = h[s].at
  <2>1. CASE Gone(h2[s])
    BY <2>1 DEF Gone, Holds
  <2>2. CASE Same(h[s], h2[s])
    <3>1. Holds(h[s], s, m)
      BY DEF AsAsked
    <3>2. h[s].kind = h2[s].kind
      BY <2>2, <3>1 DEF Holds, Same
    <3> QED
      BY <2>2, <3>1, <3>2, HoldsStill
  <2> QED
    BY <2>1, <2>2 DEF Lasts
<1>2. \A s, t \in Slots :
          h2[s].kind = "match" /\ h2[t].kind = "match" /\ h2[s].at = h2[t].at => s = t
  BY <1>1 DEF AsAsked
<1> QED
  BY <1>1, <1>2 DEF AsAsked, Lasts

\* A structure no match has is filled.
LEMMA FilledAsked ==
    ASSUME NEW h, NEW m, AsAsked(h, m), NEW i,
           \A s \in Slots : h[s].kind = "match" => h[s].at # i, NEW v
    PROVE  AsAsked(h, [m EXCEPT ![i] = v])
<1> DEFINE m2 == [m EXCEPT ![i] = v]
<1>1. DOMAIN m2 = DOMAIN m /\ \A j \in DOMAIN m : j # i => m2[j] = m[j]
  OBVIOUS
<1> HIDE DEF m2
<1>2. ASSUME NEW s \in Slots, h[s].kind = "match" PROVE m2[h[s].at] = m[h[s].at]
  <2>1. HoldsMatch(h[s], s, m)
    BY <1>2 DEF AsAsked, Holds
  <2>2. h[s].at \in DOMAIN m
    BY <2>1 DEF HoldsMatch, AsAsked
  <2> QED
    BY <1>1, <1>2, <2>2
<1>3. DOMAIN h = Slots /\ \A s \in Slots : Same(h[s], h[s])
  BY DEF AsAsked, Same
<1>4. Lasts(h, h)
  BY <1>3 DEF Lasts
<1>5. AsAsked(h, m2)
  BY <1>1, <1>2, <1>4, LastsAsked
<1> QED
  BY <1>5 DEF m2

\* A new object holds what was asked for.
LEMMA PlacedAsked ==
    ASSUME NEW h, NEW m, AsAsked(h, m), NEW s \in Slots, h[s].kind = "nothing", NEW o,
           Holds(o, s, m),
           o.kind = "match" => \A t \in Slots : h[t].kind = "match" => h[t].at # o.at
    PROVE  AsAsked([h EXCEPT ![s] = o], m)
<1> DEFINE h2 == [h EXCEPT ![s] = o]
<1>1. DOMAIN h2 = Slots /\ h2[s] = o /\ \A t \in Slots : t # s => h2[t] = h[t]
  BY DEF AsAsked
<1> HIDE DEF h2
<1>2. \A t \in Slots : Holds(h2[t], t, m)
  BY <1>1 DEF AsAsked
<1>3. \A t, u \in Slots :
          h2[t].kind = "match" /\ h2[u].kind = "match" /\ h2[t].at = h2[u].at => t = u
  BY <1>1 DEF AsAsked
<1>4. AsAsked(h2, m)
  BY <1>1, <1>2, <1>3 DEF AsAsked
<1> QED
  BY <1>4 DEF h2

\* Without objects.
LEMMA EmptyAsked ==
    ASSUME NEW h, h = [s \in Slots |-> Nothing], NEW m,
           DOMAIN m = {"tcp", "state", "socket"} \cup Slots
    PROVE  AsAsked(h, m)
<1>1. DOMAIN h = Slots /\ \A s \in Slots : h[s] = Nothing
  OBVIOUS
<1>2. Nothing.kind = "nothing" /\ "kind" \in DOMAIN Nothing
  BY DEF Nothing
<1> QED
  BY <1>1, <1>2 DEF AsAsked, Holds

\* A constructor, if what it leaves is right.
LEMMA ConstructedAsked ==
    ASSUME AsAsked(object, struct), NEW s \in Free, NEW c, NEW reported, NEW raised, NEW o,
           NEW m, NEW r, Constructs(s, c, reported, raised, o, m, r),
           AsAsked(object, r),
           ~raised => /\ AsAsked(object, m) /\ Holds(o, s, m)
                      /\ o.kind = "match" =>
                            \A t \in Slots : object[t].kind = "match" => object[t].at # o.at
    PROVE  AsAsked(object', struct') /\ event'.call # "generate"
<1>1. s \in Slots /\ object[s].kind = "nothing"
  BY DEF Free, Is
<1>2. CASE event' = [call |-> "none"] /\ object' = [x \in Slots |-> Nothing]
           /\ struct' = [i \in DOMAIN struct |-> Unused]
  <2>1. DOMAIN struct' = {"tcp", "state", "socket"} \cup Slots
    BY <1>2 DEF AsAsked
  <2> QED
    BY <1>2, <2>1, EmptyAsked
<1>3. CASE /\ event' = IF raised THEN [call |-> "refused", with |-> c, before |-> error]
                       ELSE [call |-> "none"]
           /\ IF raised THEN struct' = r /\ UNCHANGED <<object, mine>>
              ELSE struct' = m /\ object' = [object EXCEPT ![s] = o]
  <2>1. CASE raised
    BY <1>3, <2>1
  <2>2. CASE ~raised
    <3>1. AsAsked([object EXCEPT ![s] = o], m)
      BY <1>1, <2>2, PlacedAsked
    <3> QED
      BY <1>3, <2>2, <3>1
  <2> QED
    BY <2>1, <2>2
<1>4. \/ /\ event' = [call |-> "none"] /\ object' = [x \in Slots |-> Nothing]
         /\ struct' = [i \in DOMAIN struct |-> Unused]
      \/ /\ event' = IF raised THEN [call |-> "refused", with |-> c, before |-> error]
                     ELSE [call |-> "none"]
         /\ IF raised THEN struct' = r /\ UNCHANGED <<object, mine>>
            ELSE struct' = m /\ object' = [object EXCEPT ![s] = o]
  BY DEF Constructs, Dies
<1> QED
  BY <1>2, <1>3, <1>4

\* The registered structure is free if it has no options, a slot if there is
\* nothing in it.
LEMMA StructureFree ==
    ASSUME AsAsked(object, struct), NEW s \in Free, NEW name, name \in {"tcp", "state", "socket"}
    PROVE  /\ Structure(name, s) \in {name, s}
           /\ \A t \in Slots : object[t].kind = "match" => object[t].at # Structure(name, s)
<1>1. s \in Slots /\ object[s].kind = "nothing" /\ s # name
  BY EntriesAssumption DEF Free, Is
<1>2. \/ Structure(name, s) = name /\ struct[name].data = None
      \/ Structure(name, s) = s
  BY DEF Structure
<1>3. ASSUME NEW t \in Slots, object[t].kind = "match"
      PROVE  object[t].at # s /\ (struct[name].data = None => object[t].at # name)
  <2>1. HoldsMatch(object[t], t, struct)
    BY <1>3 DEF AsAsked, Holds
  <2>2. object[t].call.name \notin Slots
    BY <2>1, EntriesAssumption DEF HoldsMatch
  <2>3. object[t].at # s
    BY <1>1, <1>3, <2>1, <2>2 DEF HoldsMatch
  <2>4. struct[object[t].at].data # None
    BY <2>1, BlockIsData DEF HoldsMatch, DataSays
  <2> QED
    BY <2>3, <2>4
<1> QED
  BY <1>2, <1>3

\* py_ipt_match_new leaves a match that does what was asked.
LEMMA MatchMadeAsked ==
    ASSUME SensibleCalls, registry = Registry(kernel), AsAsked(object, struct),
           NEW s \in Free, NEW c \in MatchCalls, NewMatch(s, c)
    PROVE  AsAsked(object', struct') /\ event'.call # "generate"
<1> DEFINE found == FindMatch(registry, c.name)
<1>1. CASE found = {}
  <2>1. Constructs(s, c, FALSE, TRUE, Nothing, struct, struct)
    BY <1>1 DEF NewMatch
  <2> QED
    BY <2>1, ConstructedAsked
<1>2. CASE found # {}
  <2> DEFINE x == CHOOSE y \in found : TRUE
             at == Structure(c.name, s)
             e == error
             p == Parse(x, {}, e, c.args)
             v == [data |-> p.data, flags |-> p.flags]
             filled == [struct EXCEPT ![at] = v]
             o == [kind |-> "match", call |-> c, at |-> at, refs |-> 1]
             lost == IF at = s THEN struct ELSE filled
  <2>1. Constructs(s, c, p.reported, p.raised, o, filled, lost)
    BY <1>2 DEF NewMatch, CopiedFlags
  <2>2. x \in found
    BY <1>2
  <2> HIDE DEF x
  <2>3. x \in Range(Builtin) /\ x.kind = "match" /\ x.name = c.name
    <3>1. x \in Range(Builtin)
      BY <2>2, OneNamed DEF FindMatch
    <3> QED
      BY <2>2, <3>1 DEF FindMatch, Named
  <2>4. c.name \in {"tcp", "state", "socket"}
    BY <2>3, ExtensionNames
  <2>5. /\ at \in {c.name, s}
        /\ \A t \in Slots : object[t].kind = "match" => object[t].at # at
    BY <2>4, StructureFree
  <2>6. ~p.raised => DataSays(c, p.data)
    <3> HIDE DEF e
    <3> QED
      BY <2>3, MatchAsked
  <2> HIDE DEF at, p
  <2>7. v.data = p.data
    OBVIOUS
  <2> HIDE DEF v
  <2>8. AsAsked(object, filled)
    BY <2>5, FilledAsked
  <2>9. AsAsked(object, lost)
    BY <2>8
  <2>10. filled[at].data = p.data
    <3>1. at \in DOMAIN struct
      BY <2>4, <2>5 DEF AsAsked, Free
    <3> QED
      BY <2>7, <3>1
  <2>11. /\ o.kind = "match" /\ o.at = at /\ o.call = c
         /\ {"kind", "call", "at"} \subseteq DOMAIN o
    OBVIOUS
  <2> HIDE DEF o, filled, lost
  <2>12. ~p.raised => Holds(o, s, filled)
    BY <2>4, <2>5, <2>6, <2>10, <2>11 DEF Holds, HoldsMatch
  <2> QED
    BY <2>1, <2>5, <2>8, <2>9, <2>11, <2>12, ConstructedAsked
<1> QED
  BY <1>1, <1>2

\* py_ipt_target_new leaves such a target.
LEMMA TargetMadeAsked ==
    ASSUME SensibleCalls, registry = Registry(kernel), AsAsked(object, struct),
           NEW s \in Free, NEW c \in TargetCalls, NEW isChain \in BOOLEAN,
           NewTarget(s, c, isChain)
    PROVE  AsAsked(object', struct') /\ event'.call # "generate"
<1> DEFINE name == IF isChain THEN "standard" ELSE c.name
           found == FindTarget(registry, name)
           asked == [is |-> "target", name |-> name, args |-> c.args]
<1>1. CASE found = {}
  <2>1. Constructs(s, asked, FALSE, TRUE, Nothing, struct, struct)
    BY <1>1 DEF NewTarget
  <2> HIDE DEF asked
  <2> QED
    BY <2>1, ConstructedAsked
<1>2. CASE found # {}
  <2> DEFINE x == CHOOSE y \in found : TRUE
             e == error
             p == Parse(x, {}, e, c.args)
             o == [kind |-> "target", call |-> c, extension |-> x, data |-> p.data, refs |-> 1]
  <2>1. Constructs(s, asked, p.reported, p.raised, o, struct, struct)
    BY <1>2 DEF NewTarget
  <2>2. x \in found
    BY <1>2
  <2> HIDE DEF x, asked
  <2>3. x \in Range(Builtin) /\ x.kind = "target" /\ x.name \in {c.name, "standard"}
    <3>1. x \in Range(Builtin)
      BY <2>2, OneNamed DEF FindTarget
    <3> QED
      BY <2>2, <3>1 DEF FindTarget, Named
  <2>4. ~p.raised => TargetSays(c, x, p.data)
    <3> HIDE DEF e
    <3> QED
      BY <2>3, TargetAsked
  <2> HIDE DEF p
  <2>5. /\ o.kind = "target" /\ o.call = c /\ o.extension = x /\ o.data = p.data
        /\ {"kind", "call", "extension", "data"} \subseteq DOMAIN o
    OBVIOUS
  <2> HIDE DEF o
  <2>6. ~p.raised => Holds(o, s, struct)
    BY <2>3, <2>4, <2>5 DEF Holds, HoldsTarget
  <2> QED
    BY <2>1, <2>5, <2>6, ConstructedAsked
<1> QED
  BY <1>1, <1>2

\* What Address makes of a good name.
LEMMA AddressNames ==
    ASSUME NEW name, name.hosts \in Seq(Range(name.hosts)), GoodAddress(name)
    PROVE  /\ Address(name).mask = name.mask
           /\ {Address(name).address} = {a \cap name.mask : a \in Range(name.hosts)}
<1>1. name.mask # Bad
  BY DEF GoodAddress
<1>2. Address(name).mask = name.mask
  BY <1>1 DEF Address
<1> QED
  BY <1>2, GoodAddressIsOne

\* py_ipt_entry_new leaves an entry with the addresses of good names.
LEMMA EntryMadeAsked ==
    ASSUME AsAsked(object, struct), NEW s \in Free, NEW c \in EntryCalls, NewEntry(s, c)
    PROVE  AsAsked(object', struct') /\ event'.call # "generate"
<1> DEFINE from == Address(c.source)
           to == Address(c.destination)
           parsed == from.n = 1 /\ to.n = 1 /\ c.interface # None
           reported == \/ from.error
                       \/ from.n = 1 /\ to.error
                       \/ parsed /\ TooLong(c.interface)
           raised == from.n # 1 \/ to.n # 1 \/ (parsed /\ (error \/ reported))
           o == [kind |-> "entry", call |-> c, matches |-> <<>>, target |-> None,
                 address |-> <<from.address, to.address>>, mask |-> <<from.mask, to.mask>>,
                 interface |-> [name |-> c.interface, mask |-> InterfaceMask(c.interface)]]
<1>1. Constructs(s, c, reported, raised, o, struct, struct)
  BY DEF NewEntry
<1>2. /\ c.source.hosts \in Seq(Range(c.source.hosts))
      /\ c.destination.hosts \in Seq(Range(c.destination.hosts))
  BY EntriesAssumption
<1>3. /\ o.kind = "entry" /\ o.call = c
      /\ {"kind", "call", "address", "mask", "interface"} \subseteq DOMAIN o
      /\ o.interface = [name |-> c.interface, mask |-> InterfaceMask(c.interface)]
      /\ o.address[1] = Address(c.source).address /\ o.mask[1] = Address(c.source).mask
      /\ o.address[2] = Address(c.destination).address
      /\ o.mask[2] = Address(c.destination).mask
  OBVIOUS
<1> HIDE DEF o, raised, reported
<1>4. Names(o, 1, c.source)
  BY <1>2, <1>3, AddressNames DEF Names
<1>5. Names(o, 2, c.destination)
  BY <1>2, <1>3, AddressNames DEF Names
<1>6. Holds(o, s, struct)
  BY <1>3, <1>4, <1>5 DEF Holds, HoldsEntry
<1> QED
  BY <1>1, <1>3, <1>6, ConstructedAsked

\* The program changes an entry, or one reference.
LEMMA ChangedLasts ==
    ASSUME Kept(object, mine), AsAsked(object, struct),
           \/ \E e \in Mine("entry"), x \in Mine("match") : AddMatch(e, x) \/ RemoveMatch(e, x)
           \/ \E e \in Mine("entry"), t \in Mine("target") : SetTarget(e, t)
    PROVE  AsAsked(object', struct') /\ event'.call # "generate"
<1>1. mine \subseteq Slots /\ DOMAIN object = Slots /\ \A s \in Slots : "kind" \in DOMAIN object[s]
  BY DEF Kept, AsAsked, Holds
<1>2. ASSUME NEW h, Lasts(object, h), NEW x \in Slots,
             object' = IncRef(h, x) \/ object' = DecRef(h, x),
             struct' = struct
      PROVE  AsAsked(object', struct')
  <2>1. DOMAIN h = Slots
    BY <1>2 DEF Lasts
  <2>2. Lasts(h, object')
    BY <1>2, <2>1, IncRefLasts, DecRefLasts
  <2>3. Lasts(object, object')
    BY <1>1, <1>2, <2>2, LastsOn
  <2> QED
    BY <1>2, <2>3, LastsAsked
<1>3. ASSUME NEW e \in Mine("entry"), NEW x \in Mine("match"),
             AddMatch(e, x) \/ RemoveMatch(e, x)
      PROVE  AsAsked(object', struct') /\ event'.call # "generate"
  <2>1. e \in Slots /\ x \in Slots
    BY <1>1 DEF Mine
  <2>2. struct' = struct /\ event'.call # "generate"
    BY <1>3 DEF AddMatch, RemoveMatch, Returns
  <2>3. PICK q : \/ object' = IncRef([object EXCEPT ![e].matches = q], x)
                 \/ object' = DecRef([object EXCEPT ![e].matches = q], x)
    BY <1>3 DEF AddMatch, RemoveMatch
  <2> DEFINE o == [object[e] EXCEPT !.matches = q]
             h == [object EXCEPT ![e] = o]
  <2>4. object' = IncRef(h, x) \/ object' = DecRef(h, x)
    BY <2>3
  <2>5. Same(object[e], o)
    BY SameRefs
  <2> HIDE DEF o
  <2>6. Lasts(object, h)
    BY <1>1, <2>1, <2>5, LastsChanged
  <2> HIDE DEF h
  <2> QED
    BY <1>2, <2>1, <2>2, <2>4, <2>6
<1>4. ASSUME NEW e \in Mine("entry"), NEW t \in Mine("target"), SetTarget(e, t)
      PROVE  AsAsked(object', struct') /\ event'.call # "generate"
  <2> DEFINE old == object[e].target
             heap == IF old = None THEN object ELSE DecRef(object, old)
             o == [heap[e] EXCEPT !.target = t]
             h == [heap EXCEPT ![e] = o]
  <2>1. e \in Slots /\ t \in Slots /\ object[e].kind = "entry"
    BY <1>1 DEF Mine, Is
  <2>2. /\ struct' = struct /\ event'.call # "generate"
        /\ object' = IncRef([heap EXCEPT ![e].target = t], t)
    BY <1>4 DEF SetTarget, Returns
  <2>3. object' = IncRef(h, t)
    BY <2>2
  <2>4. Same(heap[e], o)
    BY SameRefs
  <2>5. Lasts(object, heap)
    <3>1. old \in Slots \cup {None}
      BY <2>1, KindTells DEF EntryObject
    <3>2. Lasts(object, object)
      BY <1>1 DEF Lasts, Same
    <3> HIDE DEF old
    <3> QED
      BY <1>1, <3>1, <3>2, DecRefLasts
  <2> HIDE DEF heap, o
  <2>6. Lasts(heap, h)
    <3>1. DOMAIN heap = Slots
      BY <2>5 DEF Lasts
    <3> QED
      BY <2>1, <2>4, <3>1, LastsChanged
  <2> HIDE DEF h
  <2>7. Lasts(object, h)
    BY <1>1, <2>5, <2>6, LastsOn
  <2> QED
    BY <1>2, <2>1, <2>2, <2>3, <2>7
<1> QED
  BY <1>3, <1>4

\* The program forgets an object: what becomes free has a structure of its own
\* that is free as well.
LEMMA ForgottenAsked ==
    ASSUME Kept(object, mine), AsAsked(object, struct), NEW s \in mine, Forget(s)
    PROVE  AsAsked(object', struct') /\ event'.call # "generate"
<1>1. /\ s \in Slots /\ DOMAIN object = Slots
      /\ \A x \in Slots : "kind" \in DOMAIN object[x]
  BY DEF Kept, AsAsked, Holds
<1>2. /\ event'.call # "generate"
      /\ object' = IF object[s].kind = "entry" THEN FreeEntry(object, s) ELSE DecRef(object, s)
      /\ struct' = [i \in DOMAIN struct |->
                       IF i \in Slots /\ object'[i] = Nothing THEN Unused ELSE struct[i]]
  BY DEF Forget
<1>3. Lasts(object, object')
  <2>1. CASE object[s].kind # "entry"
    BY <1>1, <1>2, <2>1, DecRefLasts
  <2>2. CASE object[s].kind = "entry"
    <3> DEFINE heap == [object EXCEPT ![s] = Nothing]
               q == UsedBy(object, s)
    <3>1. object' = Dropped(heap, q)
      BY <1>2, <2>2 DEF FreeEntry, Dropped, UsedBy
    <3>2. q \in Seq(Slots) /\ IsInjective(q)
      <4>1. EntryObject(object[s])
        BY <1>1, <2>2, KindTells
      <4> QED
        BY <1>1, <4>1, UsedOnce
    <3>3. Lasts(object, heap)
      BY <1>1, NothingGone, LastsChanged
    <3> HIDE DEF heap, q
    <3>4. Lasts(heap, object')
      BY <3>1, <3>2, <3>3, DroppedLasts DEF Lasts
    <3> QED
      BY <1>1, <3>3, <3>4, LastsOn
  <2> QED
    BY <2>1, <2>2
<1>4. ASSUME NEW t \in Slots, object'[t].kind = "match"
      PROVE  struct'[object[t].at] = struct[object[t].at]
  <2>1. Same(object[t], object'[t]) /\ object[t].kind = "match"
    BY <1>1, <1>3, <1>4 DEF Lasts, Same, Gone
  <2>2. HoldsMatch(object[t], t, struct)
    BY <2>1 DEF AsAsked, Holds
  <2>3. object'[t] # Nothing
    BY <1>4, Kinds
  <2>4. object[t].at \in DOMAIN struct /\ (object[t].at \in Slots => object[t].at = t)
    BY <2>2, EntriesAssumption DEF HoldsMatch, AsAsked
  <2> QED
    BY <1>2, <2>3, <2>4
<1>5. DOMAIN struct' = DOMAIN struct
  BY <1>2
<1> QED
  BY <1>2, <1>3, <1>4, <1>5, LastsAsked

\* An entry is generated with what its objects hold: the kernel reads what was
\* asked for.
LEMMA GeneratedSays ==
    ASSUME Kept(object, mine), AsAsked(object, struct), NEW e \in Mine("entry"), Generate(e)
    PROVE  AsAsked(object', struct') /\ RuleDoesWhatItSays'
<1> DEFINE q == object[e].matches
           t == object[e].target
           n == Len(q)
           M == [i \in DOMAIN q |-> MatchElement(q[i])]
           T == TargetElement(t)
           g == Generated(object[e])
           S == {MatchElement(x) : x \in Slots}
<1>1. /\ e \in Slots /\ DOMAIN object = Slots
      /\ \A x \in Slots : "kind" \in DOMAIN object[x]
      /\ object[e].kind = "entry" /\ EntryObject(object[e])
  BY KindTells DEF Kept, AsAsked, Holds, Mine, Is
<1>2. /\ object' = Twice(object, q) /\ struct' = struct
      /\ t # None
      /\ event' = [call |-> "generate",
                   matches |-> [i \in DOMAIN q |-> object[q[i]].call],
                   target |-> object[t].call,
                   entry |-> object[e].call,
                   generated |-> g]
  BY DEF Generate, Twice
<1>3. q \in Seq(Slots) /\ IsInjective(q) /\ t \in Slots /\ DOMAIN q = 1..n /\ n \in Nat
  BY <1>1, <1>2 DEF EntryObject
<1>4. AsAsked(object', struct')
  <2> HIDE DEF q
  <2>1. Lasts(object, object')
    BY <1>1, <1>2, <1>3, TwiceLasts
  <2> QED
    BY <1>2, <2>1, LastsAsked
<1>5. ASSUME NEW i \in 1..n
      PROVE  /\ M[i] = MatchElement(q[i]) /\ M[i].size \in Nat \ {0}
             /\ \A packet \in Packets :
                   ElementMatches(M[i], packet) <=> MatchSays(object[q[i]].call, packet)
  <2> DEFINE o == object[q[i]]
  <2>1. q[i] \in Slots /\ Contains(q, q[i])
    BY <1>3 DEF Contains
  <2>2. o.kind = "match"
    BY <1>1, <2>1 DEF Kept, Referred, UsesMatch
  <2>3. HoldsMatch(o, q[i], struct)
    BY <2>1, <2>2 DEF AsAsked, Holds
  <2>4. M[i] = [name |-> o.call.name, revision |-> 0, size |-> ElementSize[o.call.name],
                data |-> struct[o.at].data]
    BY <1>3 DEF MatchElement
  <2>5. M[i].size = ElementSize[o.call.name]
    BY <2>4
  <2>6. ElementSize[o.call.name] \in Nat \ {0}
    <3> DEFINE name == o.call.name
    <3>1. name \in {"tcp", "state", "socket"}
      BY <2>3 DEF HoldsMatch
    <3> HIDE DEF name
    <3>2. ElementSize[name] \in Nat \ {0}
      BY <3>1 DEF ElementSize
    <3> QED
      BY <3>2 DEF name
  <2>7. M[i] = MatchElement(q[i])
    BY <1>3
  <2>8. \A packet \in Packets :
            ElementMatches([name |-> o.call.name, revision |-> 0,
                            size |-> ElementSize[o.call.name],
                            data |-> struct[o.at].data], packet)
            <=> MatchSays(o.call, packet)
    BY <2>3 DEF HoldsMatch, DataSays
  <2> HIDE DEF M
  <2> QED
    BY <2>4, <2>5, <2>6, <2>7, <2>8
<1>6. T.size \in Nat \ {0} /\ TargetDoes(T, object[t].call)
  <2> DEFINE o == object[t]
             of == o.extension.name
  <2>1. o.kind = "target"
    BY <1>1, <1>3 DEF Kept, Referred, UsesTarget
  <2>2. HoldsTarget(o)
    BY <1>3, <2>1 DEF AsAsked, Holds
  <2>3. of \in {"standard", "TPROXY", "MARK", "NFLOG"}
    BY <2>2, ExtensionNames DEF HoldsTarget
  <2>4. T = [name |-> o.call.name, revision |-> o.extension.revision,
             size |-> ElementSize[of], data |-> o.data]
    BY DEF TargetElement
  <2>5. TargetDoes(T, o.call)
    BY <2>2, <2>4 DEF HoldsTarget, TargetSays
  <2>6. T.size = ElementSize[of]
    BY <2>4
  <2> HIDE DEF of, T
  <2>7. ElementSize[of] \in Nat \ {0}
    BY <2>3 DEF ElementSize
  <2> QED
    BY <2>5, <2>6, <2>7
<1>7. M \in Seq(S) /\ Len(M) = n /\ DOMAIN M = 1..n
  <2>1. \A i \in 1..n : MatchElement(q[i]) \in S
    BY <1>3
  <2> HIDE DEF S
  <2>2. M \in [1..n -> S]
    BY <1>3, <2>1
  <2> HIDE DEF M, n
  <2> QED
    BY <1>3, <2>2
<1>8. LaidOut(g, M, T)
  <2>1. /\ g.elements = Elements(Append(M, T))
        /\ g.target_offset = Behind(M)
        /\ g.next_offset = Behind(M) + T.size
    BY DEF Generated
  <2> HIDE DEF g, M, T
  <2> QED
    BY <2>1 DEF LaidOut
<1>9. /\ g.address = object[e].address /\ g.mask = object[e].mask
      /\ g.interface = object[e].interface
  BY DEF Generated
<1> HIDE DEF M, T, g, S, q, t, n
<1>10. Walked(g) = M /\ TargetRead(g) = T
  <2>1. \A i \in 1..Len(M) : M[i].size \in Nat \ {0}
    BY <1>5, <1>7
  <2> QED
    BY <1>6, <1>7, <1>8, <2>1, WalkRead
<1>11. HoldsEntry(object[e])
  BY <1>1 DEF AsAsked, Holds
<1>12. \A device \in Devices :
           OnInterface(g.interface, device) <=> InterfaceSays(object[e].call.interface, device)
  <2> DEFINE c == object[e].call
  <2>1. c \in EntryCalls /\ g.interface = [name |-> c.interface, mask |-> InterfaceMask(c.interface)]
    BY <1>9, <1>11 DEF HoldsEntry
  <2> HIDE DEF c
  <2>2. c.interface # None => IsName(c.interface)
    BY <2>1, EntriesAssumption
  <2>3. \A device \in Devices : IsName(device)
    BY EntriesAssumption
  <2>4. \A device \in Devices :
            OnInterface(g.interface, device) <=> InterfaceSays(c.interface, device)
    BY <2>1, <2>2, <2>3, OnItsInterface
  <2> QED
    BY <2>4 DEF c
<1>13. Names(g, 1, object[e].call.source) /\ Names(g, 2, object[e].call.destination)
  BY <1>9, <1>11 DEF HoldsEntry, Names
<1>14. /\ event'.generated = g /\ event'.target = object[t].call
       /\ event'.entry = object[e].call
       /\ event'.matches = [i \in DOMAIN q |-> object[q[i]].call]
  BY <1>2
<1>15. DOMAIN event'.matches = 1..n /\ \A i \in 1..n : event'.matches[i] = object[q[i]].call
  BY <1>3, <1>14
<1>16. ASSUME NEW packet \in Packets
       PROVE  (\A i \in DOMAIN M : ElementMatches(M[i], packet))
              <=> \A i \in DOMAIN event'.matches : MatchSays(event'.matches[i], packet)
  BY <1>5, <1>7, <1>15
<1>17. RuleDoesWhatItSays'
  BY <1>6, <1>10, <1>12, <1>13, <1>14, <1>16 DEF RuleDoesWhatItSays
<1> QED
  BY <1>4, <1>17

\* Every step keeps the invariant.
LEMMA NextAsked ==
    ASSUME SensibleCalls, Kept(object, mine), registry = Registry(kernel),
           AsAsked(object, struct), Next
    PROVE  AsAsked(object', struct') /\ RuleDoesWhatItSays'
<1>1. ASSUME event'.call # "generate" PROVE RuleDoesWhatItSays'
  BY <1>1 DEF RuleDoesWhatItSays
<1>2. ASSUME NEW s \in Free, NEW c \in MatchCalls, NewMatch(s, c)
      PROVE  AsAsked(object', struct') /\ event'.call # "generate"
  BY <1>2, MatchMadeAsked
<1>3. ASSUME NEW s \in Free, NEW c \in TargetCalls, NEW isChain \in BOOLEAN,
             NewTarget(s, c, isChain)
      PROVE  AsAsked(object', struct') /\ event'.call # "generate"
  BY <1>3, TargetMadeAsked
<1>4. ASSUME NEW s \in Free, NEW c \in EntryCalls, NewEntry(s, c)
      PROVE  AsAsked(object', struct') /\ event'.call # "generate"
  BY <1>4, EntryMadeAsked
<1>5. ASSUME \/ \E e \in Mine("entry"), x \in Mine("match") : AddMatch(e, x) \/ RemoveMatch(e, x)
             \/ \E e \in Mine("entry"), t \in Mine("target") : SetTarget(e, t)
      PROVE  AsAsked(object', struct') /\ event'.call # "generate"
  BY <1>5, ChangedLasts
<1>6. ASSUME NEW e \in Mine("entry"), Generate(e)
      PROVE  AsAsked(object', struct') /\ RuleDoesWhatItSays'
  BY <1>6, GeneratedSays
<1>7. ASSUME NEW s \in mine, Forget(s)
      PROVE  AsAsked(object', struct') /\ event'.call # "generate"
  BY <1>7, ForgottenAsked
<1> QED
  BY <1>1, <1>2, <1>3, <1>4, <1>5, <1>6, <1>7 DEF Next

\* A rule does what the arguments of its match and target constructors say,
\* whatever other objects were made, refused, shared or freed before, for all
\* calls that are sensible (py_ipt_entry_generate after any calls of
\* py_ipt_match_new, py_ipt_target_new and py_ipt_entry_new).
THEOREM RuleCorrect ==
    ASSUME SensibleCalls
    PROVE  Spec => []RuleDoesWhatItSays
<1> DEFINE Inv == /\ Kept(object, mine)
                  /\ registry = Registry(kernel)
                  /\ AsAsked(object, struct)
                  /\ RuleDoesWhatItSays
<1>1. Init => Inv
  <2> SUFFICES ASSUME Init PROVE Inv
    OBVIOUS
  <2>1. Kept(object, mine)
    BY InitKept
  <2>2. /\ registry = Registry(kernel)
        /\ struct = [i \in {"tcp", "state", "socket"} \cup Slots |-> Unused]
        /\ object = [s \in Slots |-> Nothing]
        /\ event.call # "generate"
    BY DEF Init, Imported
  <2>3. DOMAIN struct = {"tcp", "state", "socket"} \cup Slots
    BY <2>2
  <2>4. AsAsked(object, struct)
    BY <2>2, <2>3, EmptyAsked
  <2>5. RuleDoesWhatItSays
    BY <2>2 DEF RuleDoesWhatItSays
  <2> QED
    BY <2>1, <2>2, <2>4, <2>5
<1>2. Inv /\ [Next]_vars => Inv'
  <2> SUFFICES ASSUME Inv, [Next]_vars PROVE Inv'
    OBVIOUS
  <2>1. Kept(object', mine') /\ registry' = Registry(kernel')
    BY NextKept, RegistryStays
  <2>2. CASE Next
    BY <2>1, <2>2, NextAsked
  <2>3. CASE UNCHANGED vars
    BY <2>1, <2>3 DEF vars, RuleDoesWhatItSays
  <2> QED
    BY <2>1, <2>2, <2>3
<1>3. Inv => RuleDoesWhatItSays
  OBVIOUS
<1> QED
  BY <1>1, <1>2, <1>3, PTL DEF Spec
=============================================================================
