---------------------------- MODULE HandleProofs ----------------------------
(***************************************************************************)
(* Proofs about the handles of libiptc: the rules in one (Ruleset) and the *)
(* socket they share (IptcSocket).                                         *)
(*                                                                         *)
(* Of a handle: a table in the kernel has always the shape of a handle     *)
(* whose jumps name its own chains, so that parsing it gives that handle   *)
(* back and compiling gives the table.  Every edit keeps this, and keeps   *)
(* of each counter what it counted.                                        *)
(***************************************************************************)
EXTENDS Ruleset, IptcSocket, SequenceLemmas, FiniteSetTheorems, TLAPS

-----------------------------------------------------------------------------
\* Offsets: a table of entries, each at the sum of the sizes before it.

\* Where each entry begins: the first at zero, the others behind the one before.
LEMMA OffsetsSteps ==
    ASSUME NEW n \in Nat, NEW sizes \in [1..n -> Nat \ {0}]
    PROVE  /\ Offsets(sizes) \in [1..n -> Nat]
           /\ \A i \in 1..n : i = 1 => Offsets(sizes)[i] = 0
           /\ \A i \in 2..n : Offsets(sizes)[i] = Offsets(sizes)[i - 1] + sizes[i - 1]
<1> DEFINE Turn(f, i) == IF i = 1 THEN 0 ELSE f[i - 1] + sizes[i - 1]
           f == CHOOSE f : f = [i \in DOMAIN sizes |-> Turn(f, i)]
           Follows(g, m) == g \in [1..m -> Nat] /\ \A i \in 1..m : g[i] = Turn(g, i)
           Reached == {m \in 0..n : \E g : Follows(g, m)}
<1>0. DOMAIN sizes = 1..n
  OBVIOUS
<1>1. ASSUME NEW m \in 0..n, 0..(m - 1) \subseteq Reached PROVE \E g : Follows(g, m)
  <2>1. CASE m = 0
    <3>1. Follows(<<>>, 0)
      OBVIOUS
    <3> HIDE DEF Follows
    <3> QED
      BY <2>1, <3>1
  <2>2. CASE m # 0
    <3>1. m - 1 \in 0..(m - 1) /\ m - 1 \in 0..n /\ m \in 1..n /\ m \in Nat
      BY <2>2
    <3>2. \E g : Follows(g, m - 1)
      <4> HIDE DEF Follows
      <4> QED
        BY <1>1, <3>1
    <3> HIDE DEF Reached
    <3>3. PICK g : Follows(g, m - 1)
      BY <3>2
    <3> DEFINE h == [i \in 1..m |-> IF i = m THEN Turn(g, m) ELSE g[i]]
    <3>4. ASSUME NEW i \in 1..m PROVE h[i] \in Nat /\ h[i] = Turn(h, i)
      <4>1. CASE i = m
        <5>1. h[i] = Turn(g, m) /\ (i # 1 => i - 1 \in 1..(m - 1) /\ h[i - 1] = g[i - 1])
          BY <3>1, <4>1
        <5>2. Turn(g, m) \in Nat
          <6>1. m # 1 => m - 1 \in 1..(m - 1) /\ m - 1 \in 1..n
            BY <3>1
          <6>2. m # 1 => g[m - 1] \in Nat /\ sizes[m - 1] \in Nat
            BY <3>3, <6>1
          <6> QED
            BY <6>2
        <5> QED
          BY <4>1, <5>1, <5>2
      <4>2. CASE i # m
        <5>1. i \in 1..(m - 1) /\ h[i] = g[i] /\ (i # 1 => h[i - 1] = g[i - 1])
          BY <3>1, <4>2
        <5> QED
          BY <3>3, <5>1
      <4> QED
        BY <4>1, <4>2
    <3>5. Follows(h, m)
      <4> HIDE DEF h, Turn
      <4>1. h \in [1..m -> Nat]
        <5>1. h = [i \in 1..m |-> h[i]]
          BY DEF h
        <5> QED
          BY <3>4, <5>1
      <4> QED
        BY <3>4, <4>1
    <3> HIDE DEF Follows, h
    <3> QED
      BY <3>5
  <2> QED
    BY <2>1, <2>2
<1>2. PICK g : Follows(g, n)
  <2> HIDE DEF Follows
  <2>1. \A m \in 0..n : m \in Reached
    <3>1. \A m \in 0..n : 0..(m - 1) \subseteq Reached => m \in Reached
      BY <1>1
    <3> HIDE DEF Reached
    <3> QED
      BY <3>1, Upwards
  <2>2. n \in 0..n
    OBVIOUS
  <2> QED
    BY <2>1, <2>2
<1>3. g = [i \in DOMAIN sizes |-> Turn(g, i)]
  <2> HIDE DEF Turn
  <2> QED
    BY <1>0, <1>2
<1>4. f = [i \in DOMAIN sizes |-> Turn(f, i)]
  <2> HIDE DEF Turn
  <2> QED
    BY <1>3
<1>5. Offsets(sizes) = f
  BY DEF Offsets
<1> HIDE DEF f
<1>6. \A i \in 1..n : f[i] = Turn(f, i)
  <2> HIDE DEF Turn
  <2> QED
    BY <1>0, <1>4
<1>7. \A i \in 1..n : f[i] = g[i]
  <2> DEFINE G == {i \in 1..n : f[i] = g[i]}
  <2>1. ASSUME NEW i \in 1..n, 1..(i - 1) \subseteq G PROVE i \in G
    <3>1. i # 1 => i - 1 \in 1..(i - 1)
      OBVIOUS
    <3>2. i # 1 => f[i - 1] = g[i - 1]
      BY <2>1, <3>1
    <3>3. Turn(f, i) = Turn(g, i)
      BY <3>2
    <3> HIDE DEF Turn
    <3>4. g[i] = Turn(g, i) /\ f[i] = Turn(f, i)
      BY <1>2, <1>6
    <3> QED
      BY <3>3, <3>4
  <2> HIDE DEF G
  <2>2. \A i \in 1..n : i \in G
    <3>1. 1 \in Nat
      OBVIOUS
    <3> QED
      BY <2>1, <3>1, Upwards
  <2> QED
    BY <2>2 DEF G
<1>8. f \in [1..n -> Nat]
  <2> HIDE DEF Turn
  <2>1. f = [i \in 1..n |-> f[i]]
    BY <1>0, <1>4
  <2>2. \A i \in 1..n : f[i] \in Nat
    BY <1>2, <1>7
  <2> QED
    BY <2>1, <2>2
<1>9. ASSUME NEW i \in 2..n PROVE f[i] = f[i - 1] + sizes[i - 1]
  <2>1. i \in 1..n /\ i # 1
    OBVIOUS
  <2>2. f[i] = Turn(f, i)
    <3> HIDE DEF Turn
    <3> QED
      BY <1>6, <2>1
  <2> QED
    BY <2>1, <2>2
<1>10. ASSUME NEW i \in 1..n, i = 1 PROVE f[i] = 0
  BY <1>6, <1>10
<1> QED
  BY <1>5, <1>8, <1>9, <1>10

\* No two entries begin at the same place, and none before an earlier one.
LEMMA OffsetsIncrease ==
    ASSUME NEW n \in Nat, NEW sizes \in [1..n -> Nat \ {0}], NEW i \in 1..n, NEW j \in 1..n, i < j
    PROVE  Offsets(sizes)[i] < Offsets(sizes)[j]
<1> DEFINE O == Offsets(sizes)
           B == [k \in 0..n |-> IF k = 0 THEN 0 ELSE O[k]]
<1>1. O \in [1..n -> Nat] /\ \A k \in 2..n : O[k] = O[k - 1] + sizes[k - 1]
  BY OffsetsSteps
<1> HIDE DEF O
<1>2. ASSUME NEW k \in 2..n PROVE O[k - 1] < O[k]
  <2>1. k - 1 \in 1..n /\ k \in 1..n
    OBVIOUS
  <2>2. O[k - 1] \in Nat /\ sizes[k - 1] \in Nat \ {0}
    BY <1>1, <2>1
  <2>3. O[k] = O[k - 1] + sizes[k - 1]
    BY <1>1
  <2> QED
    BY <2>2, <2>3
<1>3. B \in [0..n -> Nat] /\ \A k \in 1..n : B[k] = O[k]
  BY <1>1
<1>4. ASSUME NEW k \in 1..n PROVE B[k - 1] <= B[k]
  <2>1. CASE k = 1
    BY <1>1, <2>1
  <2>2. CASE k # 1
    <3>1. k \in 2..n /\ B[k - 1] = O[k - 1] /\ B[k] = O[k] /\ k - 1 \in 1..n
      BY <2>2
    <3>2. O[k - 1] \in Nat /\ O[k] \in Nat
      BY <1>1, <3>1
    <3> QED
      BY <1>2, <3>1, <3>2
  <2> QED
    BY <2>1, <2>2
<1> HIDE DEF B
<1>5. \A x, y \in 0..n : x <= y => B[x] <= B[y]
  BY <1>3, <1>4, NeverDown
<1>6. i + 1 \in 2..n /\ i + 1 <= j /\ i + 1 \in 0..n /\ j \in 0..n
  OBVIOUS
<1>7. O[i] < O[i + 1]
  <2>1. O[i + 1 - 1] < O[i + 1]
    BY <1>2, <1>6
  <2>2. i + 1 - 1 = i
    OBVIOUS
  <2> QED
    BY <2>1, <2>2
<1>8. O[i + 1] <= O[j]
  BY <1>3, <1>5, <1>6
<1>9. O[i] \in Nat /\ O[i + 1] \in Nat /\ O[j] \in Nat
  BY <1>1, <1>6
<1>10. O[i] < O[j]
  BY <1>7, <1>8, <1>9
<1> QED
  BY <1>10 DEF O

-----------------------------------------------------------------------------
\* The layout of a handle: its chains in their order, the end last.

\* The names of all chains, and how many there are.
Names == BuiltIns \cup UserChains
Count == Cardinality(BuiltIns \cup UserChains)

\* The names are numbers, the first of them 0: names are compared as numbers
\* are, as the code compares them with strcmp.
LEMMA NamesCounted == Count \in Nat /\ Names = 0..(Count - 1) /\ BuiltIns \cap UserChains = {}
<1> DEFINE m == Cardinality(BuiltIns) + Cardinality(UserChains)
<1>1. m \in Nat /\ Cardinality(BuiltIns) \in Nat /\ Cardinality(UserChains) \in Nat
  BY RulesetAssumption, FS_CardinalityType
<1>2. Names = 0..(m - 1)
  <2>1. Cardinality(BuiltIns) + (Cardinality(UserChains) - 1) = m - 1
    BY <1>1
  <2> HIDE DEF m
  <2> QED
    BY <2>1, RulesetAssumption DEF Names
<1>3. Cardinality(0..(m - 1)) = m
  <2> HIDE DEF m
  <2>1. 0 \in Int /\ m - 1 \in Int
    BY <1>1
  <2>2. Cardinality(0..(m - 1)) = IF 0 > m - 1 THEN 0 ELSE m - 1 - 0 + 1
    BY <2>1, FS_Interval
  <2> QED
    BY <1>1, <2>2
<1>4. Count = m
  BY <1>2, <1>3 DEF Count, Names
<1>5. BuiltIns \cap UserChains = {}
  <2> SUFFICES ASSUME NEW c \in BuiltIns, c \in UserChains PROVE FALSE
    OBVIOUS
  <2>1. c \in 0..(m - 1) /\ c < c
    BY RulesetAssumption
  <2> QED
    BY <1>1, <2>1
<1> QED
  BY <1>1, <1>2, <1>4, <1>5

\* What a rule may be in a handle with the given chains.
RuleFits(r, chains) ==
    \/ r.type = "standard" /\ r.arg = Accept
    \/ r.type = "fallthrough" /\ r.arg = None
    \/ r.type = "module" /\ r.arg \in UserChains \cup Modules
    \/ r.type = "jump" /\ r.arg \in UserChains /\ r.arg \in chains

\* What the handle says of chains and rules makes sense.
Ruled(h) ==
    /\ BuiltIns \subseteq Chains(h) /\ Chains(h) \subseteq Names
    /\ \A c \in Chains(h) :
          /\ h.rules[c] \in Seq(Rule)
          /\ \A n \in 1..Len(h.rules[c]) : RuleFits(h.rules[c][n], Chains(h))
    /\ \A b \in BuiltIns : h.policy[b].verdict \in {Accept, Drop}

\* What a table has an entry for.
Slots == [what : {"head", "rule", "foot", "end"}, chain : Names \cup {None}, n : Nat]

\* The number of entries before a chain's first rule.
Headers(c) == IF c \in BuiltIns THEN 0 ELSE 1

\* The part of a chain: its header, if it has one, its rules in their order and
\* its foot.
LEMMA PartShape ==
    ASSUME NEW h, Ruled(h), NEW c \in Chains(h)
    PROVE  /\ Part(h, c) \in Seq(Slots)
           /\ Len(Part(h, c)) = Headers(c) + Len(h.rules[c]) + 1
           /\ c \notin BuiltIns => Part(h, c)[1] = Slot("head", c, 0)
           /\ \A n \in 1..Len(h.rules[c]) : Part(h, c)[Headers(c) + n] = Slot("rule", c, n)
           /\ Part(h, c)[Headers(c) + Len(h.rules[c]) + 1] = Slot("foot", c, 0)
<1> DEFINE l == Len(h.rules[c])
           a == IF c \in BuiltIns THEN <<>> ELSE <<Slot("head", c, 0)>>
           b == [n \in 1..l |-> Slot("rule", c, n)]
           d == <<Slot("foot", c, 0)>>
           k == Headers(c)
<1>1. l \in Nat /\ c \in Names \cup {None}
  BY DEF Ruled
<1>2. \A what \in {"head", "rule", "foot"}, n \in Nat : Slot(what, c, n) \in Slots
  BY <1>1 DEF Slot, Slots
<1>3. a \in Seq(Slots) /\ Len(a) = k /\ k \in Nat /\ (c \notin BuiltIns => k = 1 /\ a[1] = Slot("head", c, 0))
  BY <1>2 DEF Headers
<1>4. b \in Seq(Slots) /\ Len(b) = l /\ \A n \in 1..l : b[n] = Slot("rule", c, n)
  <2> HIDE DEF l
  <2>1. b \in [1..l -> Slots]
    BY <1>1, <1>2
  <2> QED
    BY <1>1, <2>1
<1>5. d \in Seq(Slots) /\ Len(d) = 1 /\ d[1] = Slot("foot", c, 0)
  BY <1>2
<1>6. Part(h, c) = a \o b \o d
  BY DEF Part
<1> HIDE DEF a, b, d, l, k
<1>7. /\ a \o b \in Seq(Slots) /\ Len(a \o b) = k + l
      /\ \A i \in 1..k : (a \o b)[i] = a[i]
      /\ \A i \in 1..l : (a \o b)[k + i] = b[i]
  <2>1. /\ a \o b \in Seq(Slots) /\ Len(a \o b) = Len(a) + Len(b)
        /\ \A i \in 1..Len(a) : (a \o b)[i] = a[i]
        /\ \A i \in 1..Len(b) : (a \o b)[Len(a) + i] = b[i]
    <3>1. a \in Seq(Slots) /\ b \in Seq(Slots)
      BY <1>3, <1>4
    <3> QED
      BY <3>1, Joined
  <2> QED
    BY <1>3, <1>4, <2>1
<1> DEFINE ab == a \o b
<1>8. /\ ab \o d \in Seq(Slots) /\ Len(ab \o d) = k + l + 1
      /\ \A i \in 1..(k + l) : (ab \o d)[i] = ab[i]
      /\ (ab \o d)[k + l + 1] = Slot("foot", c, 0)
  <2>1. ab \in Seq(Slots) /\ Len(ab) = k + l
    BY <1>7
  <2> HIDE DEF ab
  <2>2. 1 \in 1..Len(d)
    BY <1>5
  <2>3. /\ ab \o d \in Seq(Slots) /\ Len(ab \o d) = Len(ab) + Len(d)
        /\ \A i \in 1..Len(ab) : (ab \o d)[i] = ab[i]
        /\ \A i \in 1..Len(d) : (ab \o d)[Len(ab) + i] = d[i]
    <3>1. ab \in Seq(Slots) /\ d \in Seq(Slots)
      BY <1>5, <2>1
    <3> QED
      BY <3>1, Joined
  <2>4. (ab \o d)[Len(ab) + 1] = d[1]
    BY <2>2, <2>3
  <2> QED
    BY <1>5, <2>1, <2>3, <2>4
<1>9. c \notin BuiltIns => (ab \o d)[1] = Slot("head", c, 0)
  <2> SUFFICES ASSUME c \notin BuiltIns PROVE (ab \o d)[1] = Slot("head", c, 0)
    OBVIOUS
  <2>1. k = 1 /\ 1 \in 1..(k + l) /\ 1 \in 1..k
    BY <1>1, <1>3
  <2> QED
    BY <1>3, <1>7, <1>8, <2>1
<1>10. ASSUME NEW n \in 1..l PROVE (ab \o d)[k + n] = Slot("rule", c, n)
  <2>1. k + n \in 1..(k + l)
    BY <1>1, <1>3
  <2> QED
    BY <1>4, <1>7, <1>8, <2>1
<1> HIDE DEF ab
<1>11. (ab \o d)[k + l + 1] = Slot("foot", c, 0)
  BY <1>8
<1> QED
  BY <1>6, <1>8, <1>9, <1>10, <1>11 DEF ab, k, l

\* Chain c lies behind entry B[c], up to entry B[c + 1].
Laid(h, B) ==
    /\ B \in [0..Count -> Nat] /\ B[0] = 0
    /\ Layout(h) \in Seq(Slots) /\ Len(Layout(h)) = B[Count] + 1
    /\ Layout(h)[B[Count] + 1] = Slot("end", None, 0)
    /\ \A c \in Names : c \notin Chains(h) => B[c + 1] = B[c]
    /\ \A c \in Chains(h) :
          /\ B[c + 1] = B[c] + Headers(c) + Len(h.rules[c]) + 1
          /\ c \notin BuiltIns => Layout(h)[B[c] + 1] = Slot("head", c, 0)
          /\ \A n \in 1..Len(h.rules[c]) : Layout(h)[B[c] + Headers(c) + n] = Slot("rule", c, n)
          /\ Layout(h)[B[c + 1]] = Slot("foot", c, 0)

\* The layout of every handle is made of the parts of its chains, at places B.
LEMMA LaidOut ==
    ASSUME NEW h, Ruled(h)
    PROVE  \E B : Laid(h, B)
<1> DEFINE P == [k \in 1..Count |-> Part(h, k - 1)]
           q == FlattenSeq(P)
           e == <<Slot("end", None, 0)>>
<1>0. Count \in Nat /\ Names = 0..(Count - 1) /\ \A c \in Names : c + 1 \in 1..Count
  BY NamesCounted
<1>1. P \in Seq(Seq(Slots)) /\ Len(P) = Count /\ \A c \in Names : P[c + 1] = Part(h, c)
  <2>1. ASSUME NEW k \in 1..Count PROVE Part(h, k - 1) \in Seq(Slots)
    <3>1. CASE k - 1 \in Chains(h)
      BY <3>1, PartShape
    <3>2. CASE k - 1 \notin Chains(h)
      BY <3>2 DEF Part
    <3> QED
      BY <3>1, <3>2
  <2>2. P \in [1..Count -> Seq(Slots)]
    BY <2>1
  <2>3. ASSUME NEW c \in Names PROVE P[c + 1] = Part(h, c)
    <3>1. c + 1 \in 1..Count /\ (c + 1) - 1 = c
      BY <1>0
    <3>2. \A k \in 1..Count : P[k] = Part(h, k - 1)
      OBVIOUS
    <3> HIDE DEF P
    <3>3. P[c + 1] = Part(h, (c + 1) - 1)
      BY <3>1, <3>2
    <3> QED
      BY <3>1, <3>3
  <2> HIDE DEF P
  <2> QED
    BY <1>0, <2>2, <2>3
<1>2. Layout(h) = q \o e
  BY DEF Layout, Count
<1> HIDE DEF P
<1>3. q \in Seq(Slots)
  BY <1>1, FlattenParts
<1>4. PICK B : Places(P, q, B)
  BY <1>1, FlattenParts
<1>5. /\ B \in [0..Count -> Nat] /\ B[0] = 0 /\ Len(q) = B[Count]
      /\ \A k \in 1..Count : B[k] = B[k - 1] + Len(P[k])
      /\ \A k \in 1..Count : \A j \in 1..Len(P[k]) : q[B[k - 1] + j] = P[k][j]
  BY <1>1, <1>4 DEF Places
<1> HIDE DEF q
<1>6. e \in Seq(Slots) /\ Len(e) = 1 /\ e[1] = Slot("end", None, 0)
  BY DEF Slot, Slots
<1> HIDE DEF e
<1>7. /\ q \o e \in Seq(Slots) /\ Len(q \o e) = B[Count] + 1
      /\ \A i \in 1..B[Count] : (q \o e)[i] = q[i]
      /\ \A i \in 1..1 : (q \o e)[B[Count] + i] = e[i]
  <2>1. /\ q \o e \in Seq(Slots) /\ Len(q \o e) = Len(q) + Len(e)
        /\ \A i \in 1..Len(q) : (q \o e)[i] = q[i]
        /\ \A i \in 1..Len(e) : (q \o e)[Len(q) + i] = e[i]
    <3>1. q \in Seq(Slots) /\ e \in Seq(Slots)
      BY <1>3, <1>6
    <3> QED
      BY <3>1, Joined
  <2> QED
    BY <1>5, <1>6, <2>1
<1>8. B[Count] \in Nat
  BY <1>0, <1>5
<1>9. (q \o e)[B[Count] + 1] = Slot("end", None, 0)
  <2>1. 1 \in 1..1
    OBVIOUS
  <2> QED
    BY <1>6, <1>7, <2>1
<1>10. ASSUME NEW c \in Names
       PROVE  B[c] \in Nat /\ B[c + 1] = B[c] + Len(Part(h, c)) /\ B[c + 1] <= B[Count]
              /\ \A j \in 1..Len(Part(h, c)) : q[B[c] + j] = Part(h, c)[j]
  <2>1. c + 1 \in 1..Count /\ (c + 1) - 1 = c /\ c \in 0..Count /\ c + 1 \in 0..Count /\ Count \in 0..Count
        /\ c + 1 <= Count
    BY <1>0
  <2>2. \A x, y \in 0..Count : x <= y => B[x] <= B[y]
    <3>1. ASSUME NEW k \in 1..Count PROVE B[k - 1] <= B[k]
      <4>1. B[k - 1] \in Nat /\ B[k] = B[k - 1] + Len(P[k]) /\ Len(P[k]) \in Nat
        <5>1. k - 1 \in 0..Count
          BY <1>0
        <5>2. P[k] \in Seq(Slots)
          BY <1>1
        <5> QED
          BY <1>5, <5>1, <5>2
      <4> QED
        BY <4>1
    <3> QED
      BY <1>0, <1>5, <3>1, NeverDown
  <2> QED
    BY <1>1, <1>5, <2>1, <2>2
<1>11. ASSUME NEW c \in Names, c \notin Chains(h) PROVE B[c + 1] = B[c]
  <2>1. Len(Part(h, c)) = 0
    BY <1>11 DEF Part
  <2> QED
    BY <1>10, <2>1
<1>12. ASSUME NEW c \in Chains(h)
       PROVE  /\ B[c + 1] = B[c] + Headers(c) + Len(h.rules[c]) + 1
              /\ c \notin BuiltIns => (q \o e)[B[c] + 1] = Slot("head", c, 0)
              /\ \A n \in 1..Len(h.rules[c]) : (q \o e)[B[c] + Headers(c) + n] = Slot("rule", c, n)
              /\ (q \o e)[B[c + 1]] = Slot("foot", c, 0)
  <2> DEFINE l == Len(h.rules[c])
             k == Headers(c)
             p == Part(h, c)
             x == B[c]
             y == B[Count]
  <2>1. c \in Names /\ l \in Nat /\ k \in {0, 1} /\ (c \notin BuiltIns => k = 1)
    BY DEF Ruled, Headers
  <2>2. /\ Len(p) = k + l + 1
        /\ c \notin BuiltIns => p[1] = Slot("head", c, 0)
        /\ \A n \in 1..l : p[k + n] = Slot("rule", c, n)
        /\ p[k + l + 1] = Slot("foot", c, 0)
    BY PartShape
  <2>3. x \in Nat /\ B[c + 1] = x + Len(p) /\ B[c + 1] <= y /\ \A j \in 1..Len(p) : q[x + j] = p[j]
    BY <1>10, <2>1
  <2>4. \A i \in 1..y : (q \o e)[i] = q[i]
    BY <1>7
  <2> HIDE DEF l, k, p, x, y
  <2>5. ASSUME NEW j \in 1..(k + l + 1) PROVE (q \o e)[x + j] = p[j]
    <3>1. y \in Nat
      BY <1>8 DEF y
    <3>2. x + j \in 1..y
      BY <2>1, <2>2, <2>3, <3>1
    <3> QED
      BY <2>2, <2>3, <2>4, <3>2
  <2>6. c \notin BuiltIns => (q \o e)[x + 1] = Slot("head", c, 0)
    <3>1. 1 \in 1..(k + l + 1)
      BY <2>1
    <3> QED
      BY <2>2, <2>5, <3>1
  <2>7. ASSUME NEW n \in 1..l PROVE (q \o e)[x + k + n] = Slot("rule", c, n)
    <3>1. k + n \in 1..(k + l + 1) /\ x + (k + n) = x + k + n
      BY <2>1, <2>3
    <3>2. (q \o e)[x + (k + n)] = p[k + n]
      BY <2>5, <3>1
    <3> QED
      BY <2>2, <3>1, <3>2
  <2>8. B[c + 1] = x + k + l + 1
    BY <2>1, <2>2, <2>3
  <2>9. (q \o e)[B[c + 1]] = Slot("foot", c, 0)
    <3>1. k + l + 1 \in 1..(k + l + 1) /\ x + (k + l + 1) = x + k + l + 1
      BY <2>1, <2>3
    <3>2. (q \o e)[x + (k + l + 1)] = p[k + l + 1]
      BY <2>5, <3>1
    <3> QED
      BY <2>2, <2>8, <3>1, <3>2
  <2> QED
    BY <2>6, <2>7, <2>8, <2>9 DEF x, k, l
<1>13. Laid(h, B)
  BY <1>2, <1>5, <1>7, <1>9, <1>11, <1>12 DEF Laid
<1> QED
  BY <1>13

-----------------------------------------------------------------------------
\* The table a handle compiles to, and where things are in it: the offset of a
\* chain is found from its hook or its header, the chain of a jump from its verdict.

\* What remains of a number.
LEMMA Remains ==
    ASSUME NEW m \in Nat \ {0}, NEW a \in Int
    PROVE  /\ a % m \in 0..(m - 1)
           /\ a \in 0..(m - 1) => a % m = a
           /\ \E q \in Int : a = m * q + (a % m)
<1>1. a % m \in 0..(m - 1) /\ (a \in 0..(m - 1) => a % m = a)
  OBVIOUS
<1>2. a = m * (a \div m) + (a % m) /\ a \div m \in Int
  OBVIOUS
<1> QED
  BY <1>1, <1>2

\* A remainder is the only one there is.
LEMMA OneRemainder ==
    ASSUME NEW m \in Nat \ {0}, NEW q \in Int, NEW r \in 0..(m - 1)
    PROVE  (m * q + r) % m = r
<1> DEFINE a == m * q + r
<1>1. a \in Int
  OBVIOUS
<1> DEFINE s == a % m
<1>2. s \in 0..(m - 1) /\ \E p \in Int : a = m * p + s
  <2> HIDE DEF a
  <2> QED
    BY <1>1, Remains
<1> HIDE DEF s
<1>3. PICK p \in Int : m * q + r = m * p + s
  BY <1>2
<1>4. m * (q - p) = s - r
  BY <1>2, <1>3
<1>5. CASE q - p > 0
  <2>1. m * (q - p) >= m
    BY <1>5
  <2> QED
    BY <1>2, <1>4, <2>1
<1>6. CASE q - p < 0
  <2>1. m * (q - p) <= -m
    BY <1>6
  <2> QED
    BY <1>2, <1>4, <2>1
<1>7. CASE q - p = 0
  <2>1. s = r
    BY <1>2, <1>4, <1>7
  <2> QED
    BY <2>1 DEF s
<1> QED
  BY <1>5, <1>6, <1>7

\* What is added to a number may as well be added to its remainder.
LEMMA RemainderFirst ==
    ASSUME NEW m \in Nat \ {0}, NEW a \in Int, NEW b \in Int
    PROVE  ((a % m) + b) % m = (a + b) % m
<1> DEFINE t == a % m
<1>1. t \in Int /\ \E q \in Int : a = m * q + t
  <2>1. t \in 0..(m - 1) /\ \E q \in Int : a = m * q + t
    BY Remains, Zenon
  <2>2. t \in Int
    BY <2>1
  <2> QED
    BY <2>1, <2>2, Zenon
<1> HIDE DEF t
<1>2. PICK q \in Int : a = m * q + t
  BY <1>1
<1> DEFINE c == t + b
           r == c % m
<1>3. c \in Int /\ r \in 0..(m - 1) /\ \E p \in Int : c = m * p + r
  <2>1. c \in Int
    BY <1>1
  <2> HIDE DEF c
  <2> QED
    BY <2>1, Remains
<1> HIDE DEF r
<1>4. PICK p \in Int : c = m * p + r
  BY <1>3
<1> HIDE DEF c
<1>5. a + b = m * (q + p) + r
  <2>1. a + b = m * q + c
    BY <1>1, <1>2 DEF c
  <2>2. m * (q + p) = m * q + m * p
    OBVIOUS
  <2> QED
    BY <1>3, <1>4, <2>1, <2>2
<1>6. q + p \in Int
  OBVIOUS
<1>7. (m * (q + p) + r) % m = r
  BY <1>3, <1>6, OneRemainder
<1> QED
  BY <1>5, <1>7 DEF c, r, t

-----------------------------------------------------------------------------
(* A table made of a handle.                                               *)

\* Entries whose counters the kernel keeps: those of rules and of policies.
Kept(slot) == slot.what = "rule" \/ (slot.what = "foot" /\ slot.chain \in BuiltIns)

\* The target of the entry for a slot.
Target(h, slot) ==
    CASE slot.what = "rule" ->
            IF h.rules[slot.chain][slot.n].type = "module" THEN "module" ELSE "standard"
      [] slot.what = "foot" -> "standard"
      [] OTHER -> "error"

\* What a rule's entry, at offset, carries: the verdict, or the module.
RuleArg(h, r, offset) ==
    CASE r.type = "jump" -> JumpVerdict(h, r.arg)
      [] r.type = "fallthrough" -> offset + RuleSize(r.type)
      [] OTHER -> r.arg

\* What the entry for a slot, at offset, carries.
Arg(h, slot, offset) ==
    CASE slot.what = "rule" -> RuleArg(h, h.rules[slot.chain][slot.n], offset)
      [] slot.what = "foot" ->
            IF slot.chain \in BuiltIns THEN h.policy[slot.chain].verdict ELSE Return
      [] OTHER -> slot.chain

\* The values of a counter.
Counters == 0..(Modulus - 1)

\* The entries of a table in the kernel.
KernelEntries ==
    [target : {"standard", "module", "error"}, arg : Int \cup {None} \cup Modules,
     size : {StartSize, FootSize, 4}, counters : Counters, due : Counters \cup {None}]

\* The table t is what the handle h compiles to, whatever its counters are.
Shaped(t, h) ==
    /\ t.entries \in Seq(KernelEntries)
    /\ Len(t.entries) = Len(Layout(h))
    /\ \A i \in 1..Len(Layout(h)) :
          LET slot == Layout(h)[i]
              e == t.entries[i]
          IN /\ e.target = Target(h, slot)
             /\ e.arg = Arg(h, slot, LayoutOffsets(h)[i])
             /\ e.size = SlotSize(h, slot)
             /\ e.due # None <=> Kept(slot)
    /\ t.hook_entry = [b \in BuiltIns |-> HeadOffset(h, b)]

\* Offsets of the slots, and of the chains.
LEMMA SlotSizes ==
    ASSUME NEW h, Ruled(h), NEW B, Laid(h, B)
    PROVE  \A i \in 1..Len(Layout(h)) : SlotSize(h, Layout(h)[i]) \in {StartSize, FootSize, 4}
  BY DEF SlotSize, RuleSize, StartSize, FootSize

\* The offsets of the entries start at zero, each is the one before it and the
\* size of that one's entry, and no two entries share one.
LEMMA OffsetsLaid ==
    ASSUME NEW h, Ruled(h), NEW B, Laid(h, B)
    PROVE  LET O == LayoutOffsets(h)
               N == B[Count] + 1
           IN  /\ O \in [1..N -> Nat]
               /\ \A i \in 2..N : O[i] = O[i - 1] + SlotSize(h, Layout(h)[i - 1])
               /\ \A i, j \in 1..N : i < j => O[i] < O[j]
               /\ \A i, j \in 1..N : O[i] = O[j] => i = j
<1> DEFINE O == LayoutOffsets(h)
           N == B[Count] + 1
           sizes == [i \in 1..N |-> SlotSize(h, Layout(h)[i])]
<1>1. B[Count] \in Nat /\ N \in Nat /\ Len(Layout(h)) = N
  <2>1. Count \in 0..Count
    BY NamesCounted
  <2> QED
    BY <2>1 DEF Laid
<1>2. DOMAIN Layout(h) = 1..N
  BY <1>1 DEF Laid
<1>3. O = Offsets(sizes)
  BY <1>2 DEF LayoutOffsets
<1>4. sizes \in [1..N -> Nat \ {0}]
  BY <1>1, SlotSizes DEF StartSize, FootSize
<1>5. \A i \in 1..N : sizes[i] = SlotSize(h, Layout(h)[i])
  OBVIOUS
<1> HIDE DEF sizes, O, N
<1>6. /\ O \in [1..N -> Nat]
      /\ \A i \in 2..N : O[i] = O[i - 1] + sizes[i - 1]
  BY <1>1, <1>3, <1>4, OffsetsSteps
<1>7. \A i \in 2..N : O[i] = O[i - 1] + SlotSize(h, Layout(h)[i - 1])
  <2> TAKE i \in 2..N
  <2>1. i - 1 \in 1..N
    BY <1>1
  <2> QED
    BY <1>5, <1>6, <2>1
<1>8. \A i, j \in 1..N : i < j => O[i] < O[j]
  BY <1>1, <1>3, <1>4, OffsetsIncrease
<1>9. \A i, j \in 1..N : O[i] = O[j] => i = j
  <2> TAKE i, j \in 1..N
  <2> SUFFICES ASSUME O[i] = O[j], i # j PROVE FALSE
    OBVIOUS
  <2>1. i < j \/ j < i
    BY <1>1
  <2>2. O[i] \in Nat /\ O[j] \in Nat
    BY <1>6
  <2> QED
    BY <1>8, <2>1, <2>2
<1> QED
  BY <1>6, <1>7, <1>8, <1>9 DEF O, N

\* The last entries of the chains do not come before those of earlier ones.
LEMMA EndsLaid ==
    ASSUME NEW h, Ruled(h), NEW B, Laid(h, B)
    PROVE  /\ B[Count] \in Nat /\ Len(Layout(h)) = B[Count] + 1
           /\ \A x, y \in 0..Count : x <= y => B[x] <= B[y]
           /\ \A c \in Chains(h) :
                 /\ c \in Nat /\ c \in 0..Count /\ c + 1 \in 0..Count /\ c \in Names
                 /\ Len(h.rules[c]) \in Nat
                 /\ B[c] \in Nat /\ B[c + 1] \in Nat
                 /\ Headers(c) \in {0, 1}
                 /\ B[c + 1] = B[c] + Headers(c) + Len(h.rules[c]) + 1
                 /\ B[c + 1] <= B[Count]
<1>1. Count \in Nat /\ Names = 0..(Count - 1) /\ B \in [0..Count -> Nat]
  BY NamesCounted DEF Laid
<1>2. B[Count] \in Nat /\ Len(Layout(h)) = B[Count] + 1
  BY <1>1 DEF Laid
<1>3. \A c \in Chains(h) : c \in Names /\ Len(h.rules[c]) \in Nat /\ Headers(c) \in {0, 1}
  BY DEF Ruled, Headers
<1>4. \A c \in Chains(h) : B[c + 1] = B[c] + Headers(c) + Len(h.rules[c]) + 1
  BY DEF Laid
<1>5. \A c \in Names : c \in Nat /\ c \in 0..Count /\ c + 1 \in 0..Count /\ c + 1 <= Count
  BY <1>1
<1>6. \A c \in Names : B[c] \in Nat /\ B[c + 1] \in Nat /\ B[c] <= B[c + 1]
  <2> TAKE c \in Names
  <2>1. B[c] \in Nat /\ B[c + 1] \in Nat
    BY <1>1, <1>5
  <2>2. CASE c \in Chains(h)
    BY <1>3, <1>4, <2>1, <2>2
  <2>3. CASE c \notin Chains(h)
    <3>1. B[c + 1] = B[c]
      BY <2>3 DEF Laid
    <3> QED
      BY <2>1, <3>1
  <2> QED
    BY <2>1, <2>2, <2>3
<1>7. \A x, y \in 0..Count : x <= y => B[x] <= B[y]
  <2>1. ASSUME NEW k \in 1..Count PROVE B[k - 1] <= B[k]
    <3>1. k - 1 \in Names /\ (k - 1) + 1 = k
      BY <1>1
    <3> QED
      BY <1>6, <3>1
  <2> QED
    BY <1>1, <2>1, NeverDown
<1>8. ASSUME NEW c \in Chains(h)
      PROVE  /\ c \in Nat /\ c \in 0..Count /\ c + 1 \in 0..Count /\ c \in Names
             /\ Len(h.rules[c]) \in Nat /\ B[c] \in Nat /\ B[c + 1] \in Nat
             /\ Headers(c) \in {0, 1} /\ B[c + 1] <= B[Count]
  <2>1. Count \in 0..Count
    BY <1>1
  <2> QED
    BY <1>3, <1>5, <1>6, <1>7, <2>1
<1> QED
  BY <1>2, <1>4, <1>7, <1>8

\* Every entry but the last lies in a chain.
LEMMA Located ==
    ASSUME NEW h, Ruled(h), NEW B, Laid(h, B), NEW i \in 1..B[Count]
    PROVE  \E c \in Chains(h) :
              /\ B[c] < i /\ i <= B[c + 1]
              /\ \/ c \notin BuiltIns /\ i = B[c] + 1 /\ Layout(h)[i] = Slot("head", c, 0)
                 \/ \E n \in 1..Len(h.rules[c]) :
                       i = B[c] + Headers(c) + n /\ Layout(h)[i] = Slot("rule", c, n)
                 \/ i = B[c + 1] /\ Layout(h)[i] = Slot("foot", c, 0)
<1>0. B[Count] \in Nat /\ i \in Nat /\ Count \in Nat /\ B \in [0..Count -> Nat] /\ B[0] = 0
  BY EndsLaid, NamesCounted DEF Laid
<1>1. PICK k \in 1..Count : B[k - 1] < i /\ i <= B[k]
  <2>1. B[0] < i /\ i <= B[Count]
    BY <1>0
  <2> QED
    BY <1>0, <2>1, BetweenNeighbours
<1> DEFINE c == k - 1
<1>2. c \in Names /\ c + 1 = k
  BY <1>0, NamesCounted
<1> HIDE DEF c
<1>3. B[c] < i /\ i <= B[c + 1]
  BY <1>1, <1>2 DEF c
<1>4. c \in Chains(h)
  <2> SUFFICES ASSUME c \notin Chains(h) PROVE FALSE
    OBVIOUS
  <2>1. B[c + 1] = B[c]
    BY <1>2 DEF Laid
  <2>2. B[c] \in Nat
    BY <1>0, <1>1 DEF c
  <2> QED
    BY <1>0, <1>3, <2>1, <2>2
<1> DEFINE l == Len(h.rules[c])
           hd == Headers(c)
           x == B[c]
           n == i - x - hd
<1>5. /\ l \in Nat /\ x \in Nat /\ hd \in {0, 1} /\ B[c + 1] = x + hd + l + 1
      /\ (hd = 1 => c \notin BuiltIns)
  BY <1>4, EndsLaid DEF Headers
<1>6. /\ c \notin BuiltIns => Layout(h)[x + 1] = Slot("head", c, 0)
      /\ \A m \in 1..l : Layout(h)[x + hd + m] = Slot("rule", c, m)
      /\ Layout(h)[B[c + 1]] = Slot("foot", c, 0)
  BY <1>4 DEF Laid
<1> HIDE DEF l, hd, x
<1>7. x < i /\ i <= x + hd + l + 1
  BY <1>3, <1>5 DEF x
<1>8. CASE hd = 1 /\ i = x + 1
  BY <1>3, <1>4, <1>5, <1>6, <1>8 DEF x
<1>9. CASE i = x + hd + l + 1
  BY <1>3, <1>4, <1>5, <1>6, <1>9
<1>10. CASE ~(hd = 1 /\ i = x + 1) /\ i # x + hd + l + 1
  <2>1. n \in 1..l /\ i = x + hd + n
    BY <1>0, <1>5, <1>7, <1>10
  <2> HIDE DEF n
  <2>2. Layout(h)[i] = Slot("rule", c, n)
    BY <1>6, <2>1
  <2> QED
    BY <1>3, <1>4, <2>1, <2>2 DEF l, hd, x
<1> QED
  BY <1>8, <1>9, <1>10

\* It lies in one chain only.
LEMMA OneChain ==
    ASSUME NEW h, Ruled(h), NEW B, Laid(h, B), NEW i \in Nat,
           NEW c \in Chains(h), B[c] < i, i <= B[c + 1],
           NEW d \in Chains(h), B[d] < i, i <= B[d + 1]
    PROVE  c = d
<1>1. \A x, y \in 0..Count : x <= y => B[x] <= B[y]
  BY EndsLaid
<1>2. /\ c \in Nat /\ c \in 0..Count /\ c + 1 \in 0..Count /\ B[c] \in Nat /\ B[c + 1] \in Nat
      /\ d \in Nat /\ d \in 0..Count /\ d + 1 \in 0..Count /\ B[d] \in Nat /\ B[d + 1] \in Nat
  BY EndsLaid
<1>3. CASE c < d
  <2>1. c + 1 <= d
    BY <1>2, <1>3
  <2>2. B[c + 1] <= B[d]
    BY <1>1, <1>2, <2>1
  <2> QED
    BY <1>2, <2>2
<1>4. CASE d < c
  <2>1. d + 1 <= c
    BY <1>2, <1>4
  <2>2. B[d + 1] <= B[c]
    BY <1>1, <1>2, <2>1
  <2> QED
    BY <1>2, <2>2
<1> QED
  BY <1>2, <1>3, <1>4

\* Where the parts of a handle begin.
LEMMA HeadOffsetLaid ==
    ASSUME NEW h, Ruled(h), NEW B, Laid(h, B), NEW c \in Chains(h)
    PROVE  HeadOffset(h, c) = LayoutOffsets(h)[B[c] + 1]
<1> DEFINE I == {i \in DOMAIN Layout(h) : Layout(h)[i].chain = c}
           N == B[Count] + 1
<1>1. /\ N \in Nat /\ DOMAIN Layout(h) = 1..N /\ Len(Layout(h)) = N
      /\ c \in Nat /\ B[c] \in Nat /\ B[c + 1] \in Nat /\ B[c + 1] <= B[Count] /\ B[Count] \in Nat
      /\ Len(h.rules[c]) \in Nat /\ Headers(c) \in {0, 1}
      /\ B[c + 1] = B[c] + Headers(c) + Len(h.rules[c]) + 1
  <2>1. Layout(h) \in Seq(Slots)
    BY DEF Laid
  <2> QED
    BY <2>1, EndsLaid
<1>2. B[c] + 1 \in 1..B[Count] /\ B[c] < B[c] + 1 /\ B[c] + 1 <= B[c + 1]
  <2> DEFINE x == B[c]
             y == B[c + 1]
             z == B[Count]
             l == Len(h.rules[c])
             k == Headers(c)
  <2>1. x \in Nat /\ z \in Nat /\ l \in Nat /\ k \in {0, 1} /\ y = x + k + l + 1 /\ y <= z
    BY <1>1
  <2> HIDE DEF x, y, z, l, k
  <2>2. x + 1 \in 1..z /\ x < x + 1 /\ x + 1 <= y
    BY <2>1
  <2> QED
    BY <2>2 DEF x, y, z
<1>3. \A d, n, what : Slot(what, d, n).chain = d
  BY DEF Slot
<1>4. ASSUME NEW i \in 1..B[Count] PROVE Layout(h)[i].chain = c <=> B[c] < i /\ i <= B[c + 1]
  <2>1. PICK d \in Chains(h) : B[d] < i /\ i <= B[d + 1] /\ Layout(h)[i].chain = d
    BY <1>3, Located
  <2>2. B[c] < i /\ i <= B[c + 1] => c = d
    BY <2>1, OneChain
  <2> QED
    BY <2>1, <2>2
<1>5. B[c] + 1 \in I
  BY <1>1, <1>2, <1>4
<1>6. ASSUME NEW i \in I PROVE B[c] + 1 <= i
  <2>1. i \in 1..N /\ Layout(h)[i].chain = c
    BY <1>1
  <2>2. i # N
    <3>1. Layout(h)[N].chain = None
      BY <1>3 DEF Laid
    <3> QED
      BY <1>1, <2>1, <3>1, RulesetAssumption
  <2>3. i \in 1..B[Count]
    BY <1>1, <2>1, <2>2
  <2>4. B[c] < i
    BY <1>4, <2>1, <2>3
  <2> QED
    BY <1>1, <2>3, <2>4
<1> HIDE DEF I
<1>7. Min(I) = B[c] + 1
  <2>1. \A x \in I : (\A y \in I : x <= y) => x = B[c] + 1
    <3> SUFFICES ASSUME NEW x \in I, \A y \in I : x <= y PROVE x = B[c] + 1
      OBVIOUS
    <3>1. x <= B[c] + 1 /\ B[c] + 1 <= x
      BY <1>5, <1>6
    <3>2. x \in Nat
      BY <1>1 DEF I
    <3> QED
      BY <1>1, <3>1, <3>2
  <2>2. \E x \in I : \A y \in I : x <= y
    BY <1>5, <1>6
  <2> QED
    BY <2>1, <2>2 DEF Min
<1> QED
  BY <1>7 DEF HeadOffset, I

\* What the entries of a table say that is made of a handle.
LEMMA ShapedEntries ==
    ASSUME NEW h, Ruled(h), NEW B, Laid(h, B), NEW t, Shaped(t, h)
    PROVE  /\ Len(t.entries) = B[Count] + 1 /\ DOMAIN t.entries = 1..(B[Count] + 1)
           /\ OffsetsOf(t) = LayoutOffsets(h)
           /\ t.entries[B[Count] + 1].target = "error"
           /\ \A c \in Chains(h) :
                 /\ c \notin BuiltIns =>
                       t.entries[B[c] + 1].target = "error" /\ t.entries[B[c] + 1].arg = c
                 /\ \A n \in 1..Len(h.rules[c]) :
                       LET i == B[c] + Headers(c) + n
                           r == h.rules[c][n]
                       IN /\ t.entries[i].target =
                                IF r.type = "module" THEN "module" ELSE "standard"
                          /\ t.entries[i].arg = RuleArg(h, r, LayoutOffsets(h)[i])
                          /\ t.entries[i].size = RuleSize(r.type)
                          /\ t.entries[i].due # None
                 /\ t.entries[B[c + 1]].target = "standard"
                 /\ t.entries[B[c + 1]].arg =
                       IF c \in BuiltIns THEN h.policy[c].verdict ELSE Return
                 /\ c \in BuiltIns => t.entries[B[c + 1]].due # None
<1> DEFINE N == B[Count] + 1
           L == Layout(h)
           O == LayoutOffsets(h)
<1>1. N \in Nat /\ Len(L) = N /\ L \in Seq(Slots) /\ DOMAIN L = 1..N
  BY EndsLaid DEF Laid
<1>2. /\ t.entries \in Seq(KernelEntries) /\ Len(t.entries) = N /\ DOMAIN t.entries = 1..N
      /\ \A i \in 1..N :
            /\ t.entries[i].target = Target(h, L[i])
            /\ t.entries[i].arg = Arg(h, L[i], O[i])
            /\ t.entries[i].size = SlotSize(h, L[i])
            /\ t.entries[i].due # None <=> Kept(L[i])
  BY <1>1 DEF Shaped
<1>3. OffsetsOf(t) = O
  <2>1. [i \in DOMAIN t.entries |-> t.entries[i].size] = [i \in DOMAIN L |-> SlotSize(h, L[i])]
    BY <1>1, <1>2
  <2> QED
    BY <2>1 DEF OffsetsOf, LayoutOffsets
<1> HIDE DEF O, L
<1>4. \A what, d, n : /\ Slot(what, d, n).what = what /\ Slot(what, d, n).chain = d
                      /\ Slot(what, d, n).n = n
  BY DEF Slot
<1>5. t.entries[N].target = "error"
  <2>1. L[N].what = "end"
    BY <1>4 DEF Laid, L
  <2>2. N \in 1..N
    BY <1>1, EndsLaid
  <2> QED
    BY <1>2, <2>1, <2>2 DEF Target
<1> HIDE DEF N
<1>6. ASSUME NEW c \in Chains(h), c \notin BuiltIns
      PROVE  t.entries[B[c] + 1].target = "error" /\ t.entries[B[c] + 1].arg = c
  <2> DEFINE i == B[c] + 1
  <2>1. i \in 1..N
    <3>1. /\ B[c] \in Nat /\ B[c + 1] \in Nat /\ B[Count] \in Nat /\ B[c + 1] <= B[Count]
          /\ Len(h.rules[c]) \in Nat /\ Headers(c) = 1
          /\ B[c + 1] = B[c] + Headers(c) + Len(h.rules[c]) + 1
      BY <1>6, EndsLaid DEF Headers
    <3> DEFINE x == B[c]
               y == B[c + 1]
               z == B[Count]
               l == Len(h.rules[c])
    <3>2. x \in Nat /\ z \in Nat /\ l \in Nat /\ y = x + 1 + l + 1 /\ y <= z
      BY <3>1
    <3> HIDE DEF x, y, z, l
    <3>3. x + 1 \in 1..(z + 1)
      BY <3>2
    <3> QED
      BY <3>3 DEF x, z, N
  <2>2. L[i].what = "head" /\ L[i].chain = c
    BY <1>4, <1>6 DEF Laid, L
  <2> HIDE DEF i
  <2>3. t.entries[i].target = "error" /\ t.entries[i].arg = c
    BY <1>2, <2>1, <2>2 DEF Target, Arg
  <2> QED
    BY <2>3 DEF i
<1>7. ASSUME NEW c \in Chains(h), NEW n \in 1..Len(h.rules[c])
      PROVE  LET i == B[c] + Headers(c) + n
                 r == h.rules[c][n]
             IN /\ t.entries[i].target = IF r.type = "module" THEN "module" ELSE "standard"
                /\ t.entries[i].arg = RuleArg(h, r, O[i])
                /\ t.entries[i].size = RuleSize(r.type)
                /\ t.entries[i].due # None
  <2> DEFINE i == B[c] + Headers(c) + n
             r == h.rules[c][n]
  <2>1. i \in 1..N
    <3>1. /\ B[c] \in Nat /\ B[c + 1] \in Nat /\ B[Count] \in Nat /\ B[c + 1] <= B[Count]
          /\ Len(h.rules[c]) \in Nat /\ Headers(c) \in Nat
          /\ B[c + 1] = B[c] + Headers(c) + Len(h.rules[c]) + 1
      BY EndsLaid
    <3> DEFINE x == B[c]
               y == B[c + 1]
               z == B[Count]
               l == Len(h.rules[c])
               k == Headers(c)
    <3>2. x \in Nat /\ z \in Nat /\ l \in Nat /\ k \in Nat /\ y = x + k + l + 1 /\ y <= z
          /\ n \in 1..l
      BY <3>1
    <3> HIDE DEF x, y, z, l, k
    <3>3. x + k + n \in 1..(z + 1)
      BY <3>2
    <3> QED
      BY <3>3 DEF x, z, k, N
  <2>2. L[i].what = "rule" /\ L[i].chain = c /\ L[i].n = n
    BY <1>4 DEF Laid, L
  <2> HIDE DEF i
  <2>3. /\ t.entries[i].target = Target(h, L[i])
        /\ t.entries[i].arg = Arg(h, L[i], O[i])
        /\ t.entries[i].size = SlotSize(h, L[i])
        /\ t.entries[i].due # None <=> Kept(L[i])
    BY <1>2, <2>1
  <2>4. /\ Target(h, L[i]) = IF r.type = "module" THEN "module" ELSE "standard"
        /\ Arg(h, L[i], O[i]) = RuleArg(h, r, O[i])
        /\ SlotSize(h, L[i]) = RuleSize(r.type)
        /\ Kept(L[i])
    BY <2>2 DEF Target, Arg, SlotSize, Kept
  <2> QED
    BY <2>3, <2>4 DEF i
<1>8. ASSUME NEW c \in Chains(h)
      PROVE  /\ t.entries[B[c + 1]].target = "standard"
             /\ t.entries[B[c + 1]].arg =
                   IF c \in BuiltIns THEN h.policy[c].verdict ELSE Return
             /\ c \in BuiltIns => t.entries[B[c + 1]].due # None
  <2> DEFINE i == B[c + 1]
  <2>1. i \in 1..N
    <3>1. /\ B[c] \in Nat /\ B[c + 1] \in Nat /\ B[Count] \in Nat /\ B[c + 1] <= B[Count]
          /\ Len(h.rules[c]) \in Nat /\ Headers(c) \in Nat
          /\ B[c + 1] = B[c] + Headers(c) + Len(h.rules[c]) + 1
      BY EndsLaid
    <3> QED
      BY <3>1 DEF N
  <2>2. L[i].what = "foot" /\ L[i].chain = c
    BY <1>4 DEF Laid, L
  <2> HIDE DEF i
  <2>3. /\ t.entries[i].target = Target(h, L[i])
        /\ t.entries[i].arg = Arg(h, L[i], O[i])
        /\ t.entries[i].due # None <=> Kept(L[i])
    BY <1>2, <2>1
  <2>4. /\ Target(h, L[i]) = "standard"
        /\ Arg(h, L[i], O[i]) = IF c \in BuiltIns THEN h.policy[c].verdict ELSE Return
        /\ c \in BuiltIns => Kept(L[i])
    BY <2>2 DEF Target, Arg, Kept
  <2> QED
    BY <2>3, <2>4 DEF i
<1> QED
  BY <1>2, <1>3, <1>5, <1>6, <1>7, <1>8 DEF N, O

\* In a table made of a handle every chain starts behind the end of another.
LEMMA StartsShaped ==
    ASSUME NEW h, Ruled(h), NEW B, Laid(h, B), NEW t, Shaped(t, h)
    PROVE  Starts(t) = {B[c] + 1 : c \in Chains(h)} \cup {B[Count] + 1}
<1> DEFINE N == B[Count] + 1
           O == LayoutOffsets(h)
<1>1. N \in Nat /\ DOMAIN t.entries = 1..N /\ OffsetsOf(t) = O /\ N = B[Count] + 1 /\ B[Count] \in Nat
  BY ShapedEntries, EndsLaid
<1>2. \A i, j \in 1..N : O[i] = O[j] => i = j
  BY OffsetsLaid
<1>3. ASSUME NEW b \in BuiltIns
      PROVE  b \in Chains(h) /\ B[b] + 1 \in 1..N /\ t.hook_entry[b] = O[B[b] + 1]
  <2>1. b \in Chains(h)
    BY DEF Ruled
  <2>2. B[b] \in Nat /\ B[b] <= B[Count]
    <3>1. /\ B[b] \in Nat /\ b \in 0..Count /\ Count \in 0..Count /\ b <= Count
      BY <2>1, EndsLaid, NamesCounted
    <3> QED
      BY <3>1, EndsLaid
  <2>3. t.hook_entry[b] = HeadOffset(h, b)
    BY DEF Shaped
  <2>4. HeadOffset(h, b) = O[B[b] + 1]
    BY <2>1, HeadOffsetLaid
  <2> QED
    BY <1>1, <2>1, <2>2, <2>3, <2>4
<1> HIDE DEF O
<1>4. N \in Starts(t)
  <2>1. t.entries[N].target = "error" /\ N \in 1..N
    BY <1>1, ShapedEntries
  <2> QED
    BY <1>1, <2>1 DEF Starts
<1>5. ASSUME NEW c \in Chains(h) PROVE B[c] + 1 \in Starts(t)
  <2>1. B[c] + 1 \in 1..N
    <3>1. /\ B[c] \in Nat /\ c \in 0..Count /\ Count \in 0..Count /\ c <= Count
      BY EndsLaid, NamesCounted
    <3>2. B[c] <= B[Count]
      BY <3>1, EndsLaid
    <3> QED
      BY <1>1, <3>1, <3>2
  <2>2. CASE c \in BuiltIns
    <3>1. t.hook_entry[c] = O[B[c] + 1]
      BY <1>3, <2>2
    <3> QED
      BY <1>1, <2>1, <2>2, <3>1 DEF Starts
  <2>3. CASE c \notin BuiltIns
    <3>1. t.entries[B[c] + 1].target = "error"
      BY <2>3, ShapedEntries
    <3> QED
      BY <1>1, <2>1, <3>1 DEF Starts
  <2> QED
    BY <2>2, <2>3
<1>6. ASSUME NEW i \in Starts(t), i # N PROVE \E c \in Chains(h) : i = B[c] + 1
  <2>1. i \in 1..B[Count] /\ i \in 1..N
    BY <1>1, <1>6 DEF Starts
  <2>2. PICK c \in Chains(h) :
              /\ B[c] < i /\ i <= B[c + 1]
              /\ \/ c \notin BuiltIns /\ i = B[c] + 1 /\ Layout(h)[i] = Slot("head", c, 0)
                 \/ \E n \in 1..Len(h.rules[c]) :
                       i = B[c] + Headers(c) + n /\ Layout(h)[i] = Slot("rule", c, n)
                 \/ i = B[c + 1] /\ Layout(h)[i] = Slot("foot", c, 0)
    BY <2>1, Located
  <2>3. CASE t.entries[i].target = "error"
    <3>1. ASSUME NEW n \in 1..Len(h.rules[c]), i = B[c] + Headers(c) + n PROVE FALSE
      <4>1. t.entries[i].target = IF h.rules[c][n].type = "module" THEN "module" ELSE "standard"
        BY <3>1, ShapedEntries
      <4> QED
        BY <2>3, <4>1
    <3>2. i # B[c + 1]
      <4>1. t.entries[B[c + 1]].target = "standard"
        BY ShapedEntries
      <4> QED
        BY <2>3, <4>1
    <3> QED
      BY <2>2, <3>1, <3>2
  <2>4. CASE t.entries[i].target # "error"
    <3>1. PICK b \in BuiltIns : t.hook_entry[b] = O[i]
      BY <1>1, <2>4 DEF Starts
    <3>2. i = B[b] + 1 /\ b \in Chains(h)
      BY <1>2, <1>3, <2>1, <3>1
    <3> QED
      BY <3>2
  <2> QED
    BY <2>3, <2>4
<1> QED
  BY <1>4, <1>5, <1>6

\* What the parser finds of chain c.
Found(B, c) ==
    [name |-> c, head |-> B[c] + 1, first |-> B[c] + Headers(c) + 1, foot |-> B[c + 1]]

\* It finds the chains, where they are.
LEMMA PartsShaped ==
    ASSUME NEW h, Ruled(h), NEW B, Laid(h, B), NEW t, Shaped(t, h)
    PROVE  Parts(t) = {Found(B, c) : c \in Chains(h)}
<1> DEFINE N == B[Count] + 1
           O == LayoutOffsets(h)
           S == Starts(t)
           Name(i) ==
               IF t.entries[i].target = "error" THEN t.entries[i].arg
               ELSE CHOOSE b \in BuiltIns : t.hook_entry[b] = OffsetsOf(t)[i]
           First(i) == IF t.entries[i].target = "error" THEN i + 1 ELSE i
           Foot(i) == Min({j \in S : j > i}) - 1
           All(i) == [name |-> Name(i), head |-> i, first |-> First(i), foot |-> Foot(i)]
<1>1. S = {B[c] + 1 : c \in Chains(h)} \cup {N}
  BY StartsShaped
<1>2. Parts(t) = {All(i) : i \in S \ {Len(t.entries)}}
  BY DEF Parts
<1>3. Len(t.entries) = N /\ OffsetsOf(t) = O /\ N \in Nat /\ B[Count] \in Nat /\ N = B[Count] + 1
  BY ShapedEntries, EndsLaid
<1>4. \A c \in Chains(h) :
         /\ c \in Nat /\ B[c] \in Nat /\ B[c + 1] \in Nat /\ B[c] < B[c + 1] /\ B[c + 1] <= B[Count]
         /\ c \in 0..Count /\ c + 1 \in 0..Count
  <2> TAKE c \in Chains(h)
  <2>1. /\ c \in Nat /\ B[c] \in Nat /\ B[c + 1] \in Nat /\ B[c + 1] <= B[Count]
        /\ Len(h.rules[c]) \in Nat /\ Headers(c) \in Nat
        /\ B[c + 1] = B[c] + Headers(c) + Len(h.rules[c]) + 1
        /\ c \in 0..Count /\ c + 1 \in 0..Count
    BY EndsLaid
  <2>2. B[c] < B[c + 1]
    <3> DEFINE x == B[c]
               y == B[c + 1]
               l == Len(h.rules[c])
               k == Headers(c)
    <3>1. x \in Nat /\ l \in Nat /\ k \in Nat /\ y = x + k + l + 1
      BY <2>1
    <3> HIDE DEF x, y, l, k
    <3>2. x < y
      BY <3>1
    <3> QED
      BY <3>2 DEF x, y
  <2> QED
    BY <2>1, <2>2
<1> HIDE DEF S, N
<1>5. ASSUME NEW c \in Chains(h) PROVE Min({j \in S : j > B[c] + 1}) = B[c + 1] + 1
  <2> DEFINE J == {j \in S : j > B[c] + 1}
  <2>1. \A x, y \in 0..Count : x <= y => B[x] <= B[y]
    BY EndsLaid
  <2>2. B[c] \in Nat /\ B[c + 1] \in Nat /\ B[c] < B[c + 1] /\ B[c + 1] <= B[Count] /\ c \in Nat
        /\ c \in 0..Count /\ c + 1 \in 0..Count
    BY <1>4
  <2>3. B[c + 1] + 1 \in S
    <3>1. CASE B[c + 1] = B[Count]
      BY <1>1, <1>3, <3>1
    <3>2. CASE B[c + 1] # B[Count]
      <4>1. B[c + 1] + 1 \in 1..B[Count]
        BY <1>3, <2>2, <3>2
      <4>2. PICK d \in Chains(h) : B[d] < B[c + 1] + 1 /\ B[c + 1] + 1 <= B[d + 1]
        BY <4>1, Located
      <4>3. d \in Nat /\ B[d] \in Nat /\ B[d + 1] \in Nat /\ d \in 0..Count /\ d + 1 \in 0..Count
        BY <1>4
      <4>4. ~(d + 1 <= c + 1)
        <5> SUFFICES ASSUME d + 1 <= c + 1 PROVE FALSE
          OBVIOUS
        <5>1. B[d + 1] <= B[c + 1]
          BY <2>1, <2>2, <4>3
        <5> QED
          BY <2>2, <4>2, <4>3, <5>1
      <4>5. c + 1 <= d
        BY <2>2, <4>3, <4>4
      <4>6. B[c + 1] <= B[d]
        BY <2>1, <2>2, <4>3, <4>5
      <4>7. B[c + 1] = B[d]
        BY <2>2, <4>2, <4>3, <4>6
      <4> QED
        BY <1>1, <4>7
    <3> QED
      BY <3>1, <3>2
  <2>4. B[c + 1] + 1 \in J
    BY <2>2, <2>3
  <2>5. ASSUME NEW j \in J PROVE B[c + 1] + 1 <= j /\ j \in Nat
    <3>1. CASE j = N
      BY <1>3, <2>2, <3>1
    <3>2. CASE j # N
      <4>1. PICK d \in Chains(h) : j = B[d] + 1
        BY <1>1, <3>2
      <4>2. d \in Nat /\ B[d] \in Nat /\ d \in 0..Count
        BY <1>4
      <4>3. j > B[c] + 1
        OBVIOUS
      <4>4. ~(d <= c)
        <5> SUFFICES ASSUME d <= c PROVE FALSE
          OBVIOUS
        <5>1. B[d] <= B[c]
          BY <2>1, <2>2, <4>2
        <5> QED
          BY <2>2, <4>1, <4>2, <4>3, <5>1
      <4>5. c + 1 <= d
        BY <2>2, <4>2, <4>4
      <4>6. B[c + 1] <= B[d]
        BY <2>1, <2>2, <4>2, <4>5
      <4> QED
        BY <2>2, <4>1, <4>2, <4>6
    <3> QED
      BY <3>1, <3>2
  <2> HIDE DEF J
  <2>6. Min(J) = B[c + 1] + 1
    <3>1. \A x \in J : (\A y \in J : x <= y) => x = B[c + 1] + 1
      <4> SUFFICES ASSUME NEW x \in J, \A y \in J : x <= y PROVE x = B[c + 1] + 1
        OBVIOUS
      <4>1. x <= B[c + 1] + 1 /\ B[c + 1] + 1 <= x /\ x \in Nat
        BY <2>4, <2>5
      <4> QED
        BY <2>2, <4>1
    <3>2. \E x \in J : \A y \in J : x <= y
      BY <2>4, <2>5
    <3> QED
      BY <3>1, <3>2 DEF Min
  <2> QED
    BY <2>6 DEF J
<1>6. ASSUME NEW c \in Chains(h) PROVE All(B[c] + 1) = Found(B, c)
  <2> DEFINE i == B[c] + 1
  <2>1. Foot(i) = B[c + 1]
    <3>1. B[c + 1] \in Nat
      BY <1>4
    <3> QED
      BY <1>5, <3>1
  <2>2. i \in 1..N /\ B[c] \in Nat
    <3>1. B[c] \in Nat /\ B[c + 1] \in Nat /\ B[c] < B[c + 1] /\ B[c + 1] <= B[Count]
      BY <1>4
    <3> QED
      BY <1>3, <3>1
  <2>3. Name(i) = c /\ First(i) = B[c] + Headers(c) + 1
    <3>1. CASE c \notin BuiltIns
      <4>1. t.entries[i].target = "error" /\ t.entries[i].arg = c
        BY <3>1, ShapedEntries
      <4>2. Headers(c) = 1
        BY <3>1 DEF Headers
      <4> QED
        BY <2>2, <4>1, <4>2
    <3>2. CASE c \in BuiltIns
      <4>1. t.entries[i].target # "error"
        <5>1. PICK d \in Chains(h) :
                    /\ B[d] < i /\ i <= B[d + 1]
                    /\ \/ d \notin BuiltIns /\ i = B[d] + 1 /\ Layout(h)[i] = Slot("head", d, 0)
                       \/ \E n \in 1..Len(h.rules[d]) :
                             i = B[d] + Headers(d) + n /\ Layout(h)[i] = Slot("rule", d, n)
                       \/ i = B[d + 1] /\ Layout(h)[i] = Slot("foot", d, 0)
          <6>1. i \in 1..B[Count]
            <7>1. B[c] \in Nat /\ B[c + 1] \in Nat /\ B[c] < B[c + 1] /\ B[c + 1] <= B[Count]
              BY <1>4
            <7> QED
              BY <1>3, <7>1
          <6> QED
            BY <6>1, Located
        <5>2. c = d
          <6>1. B[c] < i /\ i <= B[c + 1] /\ i \in Nat
            <7>1. B[c] \in Nat /\ B[c + 1] \in Nat /\ B[c] < B[c + 1]
              BY <1>4
            <7> QED
              BY <7>1
          <6> QED
            BY <5>1, <6>1, OneChain
        <5>3. ASSUME NEW n \in 1..Len(h.rules[c]), i = B[c] + Headers(c) + n
              PROVE  t.entries[i].target # "error"
          <6>1. t.entries[i].target = IF h.rules[c][n].type = "module" THEN "module" ELSE "standard"
            BY <5>3, ShapedEntries
          <6> QED
            BY <6>1
        <5>4. i = B[c + 1] => t.entries[i].target # "error"
          <6>1. t.entries[B[c + 1]].target = "standard"
            BY ShapedEntries
          <6> QED
            BY <6>1
        <5> QED
          BY <3>2, <5>1, <5>2, <5>3, <5>4
      <4>2. \A b \in BuiltIns : t.hook_entry[b] = O[B[b] + 1] /\ B[b] + 1 \in 1..N /\ b \in Chains(h)
        <5> TAKE b \in BuiltIns
        <5>1. b \in Chains(h)
          BY DEF Ruled
        <5>2. B[b] \in Nat /\ B[b + 1] \in Nat /\ B[b] < B[b + 1] /\ B[b + 1] <= B[Count]
          BY <1>4, <5>1
        <5>3. t.hook_entry[b] = HeadOffset(h, b)
          BY DEF Shaped
        <5> QED
          BY <1>3, <5>1, <5>2, <5>3, HeadOffsetLaid
      <4>3. \A x, y \in 1..N : O[x] = O[y] => x = y
        BY OffsetsLaid DEF N
      <4>4. \A b \in BuiltIns : t.hook_entry[b] = O[i] => b = c
        <5> SUFFICES ASSUME NEW b \in BuiltIns, t.hook_entry[b] = O[i] PROVE b = c
          OBVIOUS
        <5> HIDE DEF O
        <5>1. B[b] + 1 = i /\ b \in Chains(h)
          BY <2>2, <4>2, <4>3
        <5>2. B[b] \in Nat /\ B[b + 1] \in Nat /\ B[b] < B[b + 1] /\ B[c + 1] \in Nat /\ B[c] < B[c + 1]
          BY <1>4, <5>1
        <5>3. B[b] < i /\ i <= B[b + 1] /\ B[c] < i /\ i <= B[c + 1] /\ i \in Nat
          BY <2>2, <5>1, <5>2
        <5> QED
          BY <5>1, <5>3, OneChain
      <4>5. t.hook_entry[c] = O[i]
        BY <3>2, <4>2
      <4>6. (CHOOSE b \in BuiltIns : t.hook_entry[b] = OffsetsOf(t)[i]) = c
        BY <1>3, <3>2, <4>4, <4>5
      <4>7. First(i) = B[c] + Headers(c) + 1
        <5>1. Headers(c) = 0
          BY <3>2 DEF Headers
        <5> QED
          BY <2>2, <4>1, <5>1
      <4> QED
        BY <4>1, <4>6, <4>7
    <3> QED
      BY <3>1, <3>2
  <2> QED
    BY <2>1, <2>3 DEF Found
<1>7. S \ {N} = {B[c] + 1 : c \in Chains(h)}
  <2>1. \A c \in Chains(h) : B[c] + 1 # N
    <3> TAKE c \in Chains(h)
    <3>1. B[c] \in Nat /\ B[c + 1] \in Nat /\ B[c] < B[c + 1] /\ B[c + 1] <= B[Count]
      BY <1>4
    <3> QED
      BY <1>3, <3>1
  <2> QED
    BY <1>1, <2>1
<1> HIDE DEF All
<1> QED
  BY <1>2, <1>3, <1>6, <1>7

\* A jump goes to what lies behind the header of its chain.
LEMMA JumpLaid ==
    ASSUME NEW h, Ruled(h), NEW B, Laid(h, B), NEW d \in Chains(h), d \notin BuiltIns
    PROVE  /\ B[d] \in Nat /\ B[d] + 2 \in 2..B[Count] /\ B[d] + 2 <= B[d + 1]
           /\ JumpVerdict(h, d) = LayoutOffsets(h)[B[d] + 2]
<1> DEFINE O == LayoutOffsets(h)
           N == B[Count] + 1
           x == B[d]
           y == B[d + 1]
           z == B[Count]
           l == Len(h.rules[d])
<1>1. x \in Nat /\ z \in Nat /\ l \in Nat /\ y = x + 1 + l + 1 /\ y <= z
  <2>1. Headers(d) = 1
    BY DEF Headers
  <2> QED
    BY <2>1, EndsLaid
<1>2. HeadOffset(h, d) = O[x + 1]
  BY HeadOffsetLaid
<1>3. Layout(h)[x + 1] = Slot("head", d, 0)
  BY DEF Laid
<1>4. SlotSize(h, Layout(h)[x + 1]) = StartSize
  BY <1>3 DEF SlotSize, Slot
<1>5. \A i \in 2..N : O[i] = O[i - 1] + SlotSize(h, Layout(h)[i - 1])
  BY OffsetsLaid
<1> HIDE DEF O, x, y, l
<1>6. x + 2 \in 2..z /\ x + 2 <= y /\ x + 2 \in 2..N /\ (x + 2) - 1 = x + 1
  BY <1>1
<1>7. O[x + 2] = O[x + 1] + StartSize
  BY <1>4, <1>5, <1>6
<1>8. JumpVerdict(h, d) = O[x + 2]
  BY <1>2, <1>7 DEF JumpVerdict
<1> QED
  BY <1>1, <1>6, <1>8 DEF x, y, O

\* The parser finds the chain a jump goes to.
LEMMA ChainOfJump ==
    ASSUME NEW h, Ruled(h), NEW B, Laid(h, B), NEW t, Shaped(t, h),
           NEW d \in Chains(h), d \notin BuiltIns
    PROVE  ChainAt(t, JumpVerdict(h, d)) = d
<1> DEFINE O == LayoutOffsets(h)
           N == B[Count] + 1
           j == B[d] + 2
           Holds(p) == OffsetsOf(t)[p.head] <= O[j] /\ O[j] <= OffsetsOf(t)[p.foot]
<1>1. Parts(t) = {Found(B, c) : c \in Chains(h)} /\ OffsetsOf(t) = O
  BY PartsShaped, ShapedEntries
<1>2. JumpVerdict(h, d) = O[j] /\ j \in 2..B[Count] /\ j <= B[d + 1] /\ B[d] \in Nat /\ B[Count] \in Nat
  BY JumpLaid, EndsLaid
<1>3. O \in [1..N -> Nat] /\ \A x, y \in 1..N : x < y => O[x] < O[y]
  BY OffsetsLaid
<1>4. ASSUME NEW c \in Chains(h)
      PROVE  Holds(Found(B, c)) <=> B[c] + 1 <= j /\ j <= B[c + 1]
  <2>1. B[c] + 1 \in 1..N /\ B[c + 1] \in 1..N /\ j \in 1..N
    <3>1. /\ B[c] \in Nat /\ B[c + 1] \in Nat /\ B[Count] \in Nat /\ B[c + 1] <= B[Count]
          /\ Len(h.rules[c]) \in Nat /\ Headers(c) \in Nat
          /\ B[c + 1] = B[c] + Headers(c) + Len(h.rules[c]) + 1
      BY EndsLaid
    <3> DEFINE x == B[c]
               y == B[c + 1]
               z == B[Count]
               l == Len(h.rules[c])
               k == Headers(c)
    <3>2. x \in Nat /\ z \in Nat /\ l \in Nat /\ k \in Nat /\ y = x + k + l + 1 /\ y <= z
      BY <3>1
    <3> HIDE DEF x, y, z, l, k
    <3>3. x + 1 \in 1..(z + 1) /\ y \in 1..(z + 1)
      BY <3>2
    <3> QED
      BY <1>2, <3>3 DEF x, y, z
  <2>2. Found(B, c).head = B[c] + 1 /\ Found(B, c).foot = B[c + 1]
    BY DEF Found
  <2> DEFINE u == B[c] + 1
             v == B[c + 1]
  <2> HIDE DEF O, j, N
  <2>3. O[u] <= O[j] <=> u <= j
    BY <1>3, <2>1
  <2>4. O[j] <= O[v] <=> j <= v
    BY <1>3, <2>1
  <2> QED
    BY <1>1, <2>2, <2>3, <2>4
<1>5. Holds(Found(B, d))
  <2>1. B[d] + 1 <= j /\ j <= B[d + 1]
    BY <1>2
  <2> HIDE DEF Holds
  <2> QED
    BY <1>4, <2>1
<1>6. ASSUME NEW c \in Chains(h), Holds(Found(B, c)) PROVE c = d
  <2>1. B[c] + 1 <= j /\ j <= B[c + 1]
    <3> HIDE DEF Holds, j
    <3> QED
      BY <1>4, <1>6
  <2>2. B[c] \in Nat
    BY EndsLaid
  <2>3. B[c] < j /\ B[d] < j /\ j \in Nat
    BY <1>2, <2>1, <2>2
  <2> HIDE DEF j
  <2> QED
    BY <1>2, <2>1, <2>3, OneChain
<1>7. ChainAt(t, O[j]) = (CHOOSE p \in Parts(t) : Holds(p)).name
  BY DEF ChainAt
<1>8. (CHOOSE p \in Parts(t) : Holds(p)) = Found(B, d)
  <2> HIDE DEF Holds
  <2>1. \A p \in Parts(t) : Holds(p) => p = Found(B, d)
    BY <1>1, <1>6
  <2>2. Found(B, d) \in Parts(t)
    BY <1>1
  <2> QED
    BY <1>5, <2>1, <2>2
<1> HIDE DEF Holds, O, j
<1>9. Found(B, d).name = d
  BY DEF Found
<1>10. ChainAt(t, O[j]) = Found(B, d).name
  BY <1>7, <1>8
<1> QED
  BY <1>2, <1>9, <1>10

\* The parser finds in an entry the rule it was made of.
LEMMA ParsedRule ==
    ASSUME NEW h, Ruled(h), NEW B, Laid(h, B), NEW t, Shaped(t, h),
           NEW c \in Chains(h), NEW n \in 1..Len(h.rules[c]),
           NEW i, i = B[c] + Headers(c) + n
    PROVE  ParseRule(t, i) =
               [type |-> h.rules[c][n].type, arg |-> h.rules[c][n].arg, map |-> Normal(i),
                counters |-> t.entries[i].counters, from |-> i, less |-> 0]
<1> DEFINE O == LayoutOffsets(h)
           N == B[Count] + 1
           r == h.rules[c][n]
           e == t.entries[i]
           type == TypeOf(e, OffsetsOf(t)[i])
<1>1. /\ OffsetsOf(t) = O
      /\ e.target = IF r.type = "module" THEN "module" ELSE "standard"
      /\ e.arg = RuleArg(h, r, O[i])
      /\ e.size = RuleSize(r.type)
  BY ShapedEntries
<1>2. i \in 1..B[Count] /\ i + 1 \in 2..N /\ i \in 1..N /\ i \in Nat /\ B[Count] \in Nat
  <2>1. /\ B[c] \in Nat /\ B[c + 1] \in Nat /\ B[Count] \in Nat /\ B[c + 1] <= B[Count]
        /\ Len(h.rules[c]) \in Nat /\ Headers(c) \in Nat
        /\ B[c + 1] = B[c] + Headers(c) + Len(h.rules[c]) + 1
    BY EndsLaid
  <2> DEFINE x == B[c]
             y == B[c + 1]
             z == B[Count]
             l == Len(h.rules[c])
             k == Headers(c)
  <2>2. x \in Nat /\ z \in Nat /\ l \in Nat /\ k \in Nat /\ y = x + k + l + 1 /\ y <= z
        /\ n \in 1..l /\ i = x + k + n
    BY <2>1
  <2> HIDE DEF x, y, z, l, k
  <2>3. i \in 1..z /\ i + 1 \in 2..(z + 1) /\ i \in 1..(z + 1) /\ i \in Nat
    BY <2>2
  <2> QED
    BY <2>1, <2>3 DEF z
<1>3. O \in [1..N -> Nat] /\ \A x, y \in 1..N : O[x] = O[y] => x = y
  BY OffsetsLaid
<1>4. Layout(h)[i] = Slot("rule", c, n)
  BY DEF Laid
<1>5. O[i + 1] = O[i] + RuleSize(r.type)
  <2>1. \A j \in 2..N : O[j] = O[j - 1] + SlotSize(h, Layout(h)[j - 1])
    BY OffsetsLaid
  <2>2. (i + 1) - 1 = i
    BY <1>2
  <2>3. SlotSize(h, Layout(h)[i]) = RuleSize(r.type)
    BY <1>4 DEF SlotSize, Slot
  <2> HIDE DEF O, N
  <2> QED
    BY <1>2, <2>1, <2>2, <2>3
<1>6. O[i] \in Nat /\ RuleSize(r.type) \in {2, 4} /\ O[i] + RuleSize(r.type) >= 0
  <2>1. O[i] \in Nat
    BY <1>2, <1>3
  <2>2. RuleSize(r.type) \in {2, 4}
    BY DEF RuleSize, FootSize
  <2> HIDE DEF O
  <2> QED
    BY <2>1, <2>2
<1>7. RuleFits(r, Chains(h))
  BY DEF Ruled
<1> SUFFICES type = r.type
             /\ (r.type = "jump" => ChainAt(t, e.arg) = r.arg)
             /\ (r.type = "fallthrough" => r.arg = None)
             /\ (r.type \notin {"jump", "fallthrough"} => e.arg = r.arg)
  <2> SUFFICES
        ASSUME type = r.type, r.type = "jump" => ChainAt(t, e.arg) = r.arg,
               r.type = "fallthrough" => r.arg = None,
               r.type \notin {"jump", "fallthrough"} => e.arg = r.arg
        PROVE  (CASE type = "jump" -> ChainAt(t, e.arg) [] type = "fallthrough" -> None
                  [] OTHER -> e.arg) = r.arg
    BY DEF ParseRule
  <2> HIDE DEF type, e, r
  <2> QED
    OBVIOUS
<1> HIDE DEF O, r, e
<1>8. CASE r.type = "standard" /\ r.arg = Accept
  <2>1. e.target = "standard" /\ e.arg = Accept /\ Accept < 0
    BY <1>1, <1>8 DEF RuleArg, Accept
  <2>2. type = "standard"
    BY <2>1 DEF TypeOf
  <2> QED
    BY <1>8, <2>1, <2>2
<1>9. CASE r.type = "fallthrough" /\ r.arg = None
  <2>1. e.target = "standard" /\ e.arg = O[i] + e.size /\ e.arg >= 0
    BY <1>1, <1>6, <1>9 DEF RuleArg
  <2>2. type = "fallthrough"
    BY <1>1, <1>6, <2>1 DEF TypeOf
  <2> QED
    BY <1>9, <2>2
<1>10. CASE r.type = "module"
  <2>1. e.target = "module" /\ e.arg = r.arg
    BY <1>1, <1>10 DEF RuleArg
  <2>2. type = "module"
    BY <2>1 DEF TypeOf
  <2> QED
    BY <1>10, <2>1, <2>2
<1>11. CASE r.type = "jump" /\ r.arg \in UserChains /\ r.arg \in Chains(h)
  <2> DEFINE d == r.arg
  <2>1. d \notin BuiltIns
    BY <1>11, NamesCounted
  <2>2. JumpVerdict(h, d) = O[B[d] + 2] /\ B[d] + 2 \in 2..B[Count] /\ B[d] \in Nat
    BY <1>11, <2>1, JumpLaid DEF O
  <2>3. ChainAt(t, JumpVerdict(h, d)) = d
    BY <1>11, <2>1, ChainOfJump
  <2>4. e.target = "standard" /\ e.arg = O[B[d] + 2]
    BY <1>1, <1>11, <2>2 DEF RuleArg
  <2>5. B[d] + 2 # i + 1
    <3> SUFFICES ASSUME B[d] + 2 = i + 1 PROVE FALSE
      OBVIOUS
    <3>1. i = B[d] + 1
      <4>1. i \in Nat /\ B[d] \in Nat
        BY <1>2, <2>2
      <4> QED
        BY <4>1
    <3>2. Layout(h)[i] = Slot("head", d, 0)
      BY <1>11, <2>1, <3>1 DEF Laid
    <3> QED
      BY <1>4, <3>2 DEF Slot
  <2>6. e.arg # O[i] + e.size
    <3>1. B[d] + 2 \in 1..N /\ i + 1 \in 1..N
      BY <1>2, <2>2
    <3>2. O[B[d] + 2] # O[i + 1]
      BY <1>3, <2>5, <3>1
    <3> QED
      BY <1>1, <1>5, <2>4, <3>2
  <2>7. ~(e.arg < 0)
    <3>1. B[d] + 2 \in 1..N
      BY <1>2, <2>2
    <3>2. O[B[d] + 2] \in Nat
      BY <1>3, <3>1
    <3> QED
      BY <2>4, <3>2
  <2>8. type = "jump"
    BY <1>1, <2>4, <2>6, <2>7 DEF TypeOf
  <2> QED
    BY <1>11, <2>2, <2>3, <2>4, <2>8
<1> QED
  BY <1>7, <1>8, <1>9, <1>10, <1>11 DEF RuleFits

-----------------------------------------------------------------------------
\* Parsing such a table gives the handle back.

\* The rule and the policy rule that are found at entry i of t.
RuleAt(t, i, type, arg) ==
    [type |-> type, arg |-> arg, map |-> Normal(i),
     counters |-> t.entries[i].counters, from |-> i, less |-> 0]

\* The policy that parsing makes of the entry at i.
PolicyAt(t, i, verdict) ==
    [verdict |-> verdict, map |-> Normal(i), counters |-> t.entries[i].counters,
     from |-> i, less |-> 0]

\* Parsing gives back the handle the table was made of.
LEMMA ParsedShaped ==
    ASSUME NEW h, Ruled(h), NEW B, Laid(h, B), NEW t, Shaped(t, h)
    PROVE  LET g == Parse(t)
           IN  /\ g.rules = [c \in Chains(h) |->
                     [n \in 1..Len(h.rules[c]) |->
                         RuleAt(t, B[c] + Headers(c) + n, h.rules[c][n].type, h.rules[c][n].arg)]]
               /\ g.references = [c \in Chains(h) |-> Cardinality(JumpsTo(g.rules, c))]
               /\ g.policy = [b \in BuiltIns |-> PolicyAt(t, B[b + 1], h.policy[b].verdict)]
               /\ g.num = Len(t.entries)
<1> DEFINE PartOf(c) == CHOOSE p \in Parts(t) : p.name = c
           RulesOf(p) == [n \in 1..(p.foot - p.first) |-> ParseRule(t, p.first + n - 1)]
           PolicyOf(p) ==
               [verdict |-> t.entries[p.foot].arg, map |-> Normal(PolicyPosition(p)),
                counters |-> t.entries[p.foot].counters, from |-> p.foot, less |-> 0]
           names == {p.name : p \in Parts(t)}
           rules == [c \in names |-> RulesOf(PartOf(c))]
           policy == [b \in BuiltIns |-> PolicyOf(PartOf(b))]
<1>1. Parse(t) =
         [rules |-> rules,
          references |-> [c \in names |-> Cardinality(JumpsTo(rules, c))],
          policy |-> policy, num |-> Len(t.entries), changed |-> FALSE]
  BY DEF Parse
<1>2. Parts(t) = {Found(B, c) : c \in Chains(h)}
  BY PartsShaped
<1>3. \A c : /\ Found(B, c).name = c /\ Found(B, c).foot = B[c + 1]
             /\ Found(B, c).first = B[c] + Headers(c) + 1
  BY DEF Found
<1>4. names = Chains(h)
  BY <1>2, <1>3
<1>5. \A c \in Chains(h) : PartOf(c) = Found(B, c)
  <2> TAKE c \in Chains(h)
  <2>1. \A p \in Parts(t) : p.name = c <=> p = Found(B, c)
    BY <1>2, <1>3
  <2>2. Found(B, c) \in Parts(t)
    BY <1>2
  <2> QED
    BY <2>1, <2>2
<1>6. ASSUME NEW c \in Chains(h)
      PROVE  RulesOf(Found(B, c)) =
                [n \in 1..Len(h.rules[c]) |->
                    RuleAt(t, B[c] + Headers(c) + n, h.rules[c][n].type, h.rules[c][n].arg)]
  <2> DEFINE p == Found(B, c)
             l == Len(h.rules[c])
             x == B[c]
             y == B[c + 1]
             k == Headers(c)
             Made(n) == RuleAt(t, x + k + n, h.rules[c][n].type, h.rules[c][n].arg)
             Parsed(n) == ParseRule(t, p.first + n - 1)
  <2>1. x \in Nat /\ l \in Nat /\ k \in Nat /\ y = x + k + l + 1
    BY EndsLaid
  <2>2. p.foot = y /\ p.first = x + k + 1
    BY <1>3
  <2>3. ASSUME NEW n \in 1..l PROVE Parsed(n) = Made(n)
    <3>1. x + k + 1 + n - 1 = x + k + n
      <4> HIDE DEF x, k, l
      <4> QED
        BY <2>1
    <3>2. ParseRule(t, x + k + n) = Made(n)
      BY ParsedRule DEF RuleAt
    <3> HIDE DEF Made, x, k, l, p
    <3> QED
      BY <2>2, <3>1, <3>2
  <2>4. p.foot - p.first = l
    <3> HIDE DEF x, y, k, l, p
    <3> QED
      BY <2>1, <2>2
  <2>5. RulesOf(p) = [n \in 1..(p.foot - p.first) |-> Parsed(n)]
    OBVIOUS
  <2> HIDE DEF p, l, Made, Parsed
  <2>6. RulesOf(p) = [n \in 1..l |-> Made(n)]
    BY <2>3, <2>4, <2>5
  <2> QED
    BY <2>6 DEF p, l, Made
<1>7. rules = [c \in Chains(h) |->
                  [n \in 1..Len(h.rules[c]) |->
                      RuleAt(t, B[c] + Headers(c) + n, h.rules[c][n].type, h.rules[c][n].arg)]]
  <2> HIDE DEF names, PartOf, RulesOf
  <2>1. rules = [c \in Chains(h) |-> RulesOf(Found(B, c))]
    BY <1>4, <1>5
  <2> QED
    BY <1>6, <2>1
<1>8. ASSUME NEW b \in BuiltIns
      PROVE  PolicyOf(PartOf(b)) = PolicyAt(t, B[b + 1], h.policy[b].verdict)
  <2>1. b \in Chains(h)
    BY DEF Ruled
  <2>2. t.entries[B[b + 1]].arg = h.policy[b].verdict
    BY <2>1, ShapedEntries
  <2>3. PolicyOf(Found(B, b)) = PolicyAt(t, B[b + 1], h.policy[b].verdict)
    BY <1>3, <2>2 DEF PolicyAt, PolicyPosition
  <2> HIDE DEF PolicyOf, PartOf
  <2> QED
    BY <1>5, <2>1, <2>3
<1>9. policy = [b \in BuiltIns |-> PolicyAt(t, B[b + 1], h.policy[b].verdict)]
  <2> HIDE DEF PolicyOf, PartOf
  <2> QED
    BY <1>8
<1> HIDE DEF rules, policy, names
<1> QED
  BY <1>1, <1>4, <1>7, <1>9

\* A rule or policy r that has just been read of the table t.
Fresh(t, r) ==
    \E i \in 1..Len(t.entries) :
       /\ r.map = Normal(i) /\ r.from = i /\ r.less = 0
       /\ r.counters = t.entries[i].counters /\ t.entries[i].due # None

\* The handle g is what one gets by reading a table t that is made of handle h.
ReadOf(t, h, g) ==
    /\ Chains(g) = Chains(h)
    /\ Ruled(g)
    /\ g.rules \in [Chains(g) -> Seq(Rule)]
    /\ \A c \in Chains(h) :
          /\ Len(g.rules[c]) = Len(h.rules[c])
          /\ \A n \in 1..Len(h.rules[c]) :
                /\ g.rules[c][n].type = h.rules[c][n].type
                /\ g.rules[c][n].arg = h.rules[c][n].arg
                /\ Fresh(t, g.rules[c][n])
    /\ \A b \in BuiltIns :
          /\ g.policy[b].verdict = h.policy[b].verdict
          /\ g.policy[b].map \in Map
          /\ Fresh(t, g.policy[b])
    /\ DOMAIN g.policy = BuiltIns
    /\ g.references = [c \in Chains(g) |-> Cardinality(JumpsTo(g.rules, c))]
    /\ g.num = Len(t.entries)

\* Parsing a table that is made of a handle gives rules and counters that are
\* what they should be.
LEMMA ParsedRules ==
    ASSUME NEW h, Ruled(h), NEW B, Laid(h, B), NEW t, Shaped(t, h)
    PROVE  ReadOf(t, h, Parse(t))
<1> DEFINE g == Parse(t)
<1>1. /\ g.rules = [c \in Chains(h) |->
              [n \in 1..Len(h.rules[c]) |->
                  RuleAt(t, B[c] + Headers(c) + n, h.rules[c][n].type, h.rules[c][n].arg)]]
      /\ g.references = [c \in Chains(h) |-> Cardinality(JumpsTo(g.rules, c))]
      /\ g.policy = [b \in BuiltIns |-> PolicyAt(t, B[b + 1], h.policy[b].verdict)]
      /\ g.num = Len(t.entries)
  BY ParsedShaped
<1> HIDE DEF g
<1>2. Chains(g) = Chains(h)
  BY <1>1 DEF Chains
<1>3. /\ Len(t.entries) = B[Count] + 1 /\ B[Count] \in Nat
      /\ \A i \in 1..Len(t.entries) : t.entries[i].counters \in Counters
  <2>1. t.entries \in Seq(KernelEntries)
    BY DEF Shaped
  <2>2. \A i \in 1..Len(t.entries) : t.entries[i] \in KernelEntries
    BY <2>1
  <2> QED
    BY <2>2, EndsLaid, ShapedEntries DEF KernelEntries
<1>4. ASSUME NEW c \in Chains(h), NEW n \in 1..Len(h.rules[c])
      PROVE  LET r == RuleAt(t, B[c] + Headers(c) + n, h.rules[c][n].type, h.rules[c][n].arg)
             IN  /\ r.type = h.rules[c][n].type /\ r.arg = h.rules[c][n].arg
                 /\ r \in Rule /\ Fresh(t, r)
  <2> DEFINE i == B[c] + Headers(c) + n
             r == RuleAt(t, i, h.rules[c][n].type, h.rules[c][n].arg)
  <2>1. i \in 1..Len(t.entries) /\ i \in Nat /\ i # 0
    <3>1. /\ B[c] \in Nat /\ B[c + 1] \in Nat /\ B[c + 1] <= B[Count]
          /\ Len(h.rules[c]) \in Nat /\ Headers(c) \in Nat
          /\ B[c + 1] = B[c] + Headers(c) + Len(h.rules[c]) + 1
      BY EndsLaid
    <3> DEFINE x == B[c]
               y == B[c + 1]
               z == B[Count]
               l == Len(h.rules[c])
               k == Headers(c)
    <3>2. x \in Nat /\ z \in Nat /\ l \in Nat /\ k \in Nat /\ y = x + k + l + 1 /\ y <= z
          /\ n \in 1..l /\ Len(t.entries) = z + 1
      BY <1>3, <3>1
    <3> HIDE DEF x, y, z, l, k
    <3>3. x + k + n \in 1..(z + 1) /\ x + k + n \in Nat /\ x + k + n # 0
      BY <3>2
    <3> QED
      BY <3>2, <3>3 DEF x, z, k
  <2>2. t.entries[i].due # None
    BY ShapedEntries
  <2> HIDE DEF i
  <2>3. /\ r.type = h.rules[c][n].type /\ r.arg = h.rules[c][n].arg /\ r.map = Normal(i)
        /\ r.counters = t.entries[i].counters /\ r.from = i /\ r.less = 0
    BY DEF RuleAt
  <2>4. Fresh(t, r)
    BY <2>1, <2>2, <2>3 DEF Fresh
  <2>5. h.rules[c][n] \in Rule
    BY DEF Ruled
  <2>6. t.entries[i].counters \in Counters
    BY <1>3, <2>1
  <2>7. r \in Rule
    <3>1. /\ h.rules[c][n].type \in {"standard", "fallthrough", "module", "jump"}
          /\ h.rules[c][n].arg \in {Accept, None} \cup UserChains \cup Modules
      BY <2>5 DEF Rule
    <3>2. Normal(i) \in Map
      BY <2>1 DEF Normal, Map
    <3>3. t.entries[i].counters \in 0..(Modulus - 1) /\ i \in Nat \cup {None} /\ 0 \in Int
      BY <2>1, <2>6 DEF Counters
    <3> QED
      BY <3>1, <3>2, <3>3 DEF RuleAt, Rule
  <2> QED
    BY <2>3, <2>4, <2>7 DEF i
<1>5. ASSUME NEW b \in BuiltIns
      PROVE  LET p == PolicyAt(t, B[b + 1], h.policy[b].verdict)
             IN  p.verdict = h.policy[b].verdict /\ p.map \in Map /\ Fresh(t, p)
  <2> DEFINE i == B[b + 1]
             p == PolicyAt(t, i, h.policy[b].verdict)
  <2>1. b \in Chains(h)
    BY DEF Ruled
  <2>2. i \in 1..Len(t.entries) /\ i \in Nat /\ i # 0
    <3>1. /\ B[b] \in Nat /\ B[b + 1] \in Nat /\ B[b + 1] <= B[Count]
          /\ Len(h.rules[b]) \in Nat /\ Headers(b) \in Nat
          /\ B[b + 1] = B[b] + Headers(b) + Len(h.rules[b]) + 1
      BY <2>1, EndsLaid
    <3>2. i \in Nat /\ i # 0 /\ i <= B[Count]
      BY <3>1
    <3> HIDE DEF i
    <3> QED
      BY <1>3, <3>2
  <2>3. t.entries[i].due # None
    BY <2>1, ShapedEntries
  <2> HIDE DEF i
  <2>4. /\ p.verdict = h.policy[b].verdict /\ p.map = Normal(i)
        /\ p.counters = t.entries[i].counters /\ p.from = i /\ p.less = 0
    BY DEF PolicyAt
  <2>5. Fresh(t, p)
    BY <2>2, <2>3, <2>4 DEF Fresh
  <2>6. p.map \in Map
    BY <2>2, <2>4 DEF Normal, Map
  <2> QED
    BY <2>4, <2>5, <2>6 DEF i
<1>6. \A c \in Chains(h) :
         /\ g.rules[c] \in [1..Len(h.rules[c]) -> Rule]
         /\ \A n \in 1..Len(h.rules[c]) :
               /\ g.rules[c][n].type = h.rules[c][n].type
               /\ g.rules[c][n].arg = h.rules[c][n].arg
               /\ Fresh(t, g.rules[c][n])
  <2> TAKE c \in Chains(h)
  <2> DEFINE Made(n) == RuleAt(t, B[c] + Headers(c) + n, h.rules[c][n].type, h.rules[c][n].arg)
  <2>1. g.rules[c] = [n \in 1..Len(h.rules[c]) |-> Made(n)]
    BY <1>1
  <2>2. \A n \in 1..Len(h.rules[c]) :
           Made(n).type = h.rules[c][n].type /\ Made(n).arg = h.rules[c][n].arg
           /\ Made(n) \in Rule /\ Fresh(t, Made(n))
    BY <1>4
  <2> HIDE DEF Made
  <2> QED
    BY <2>1, <2>2
<1>7. \A c \in Chains(h) : g.rules[c] \in Seq(Rule) /\ Len(g.rules[c]) = Len(h.rules[c])
  <2> TAKE c \in Chains(h)
  <2>1. Len(h.rules[c]) \in Nat
    BY EndsLaid
  <2> QED
    BY <1>6, <2>1
<1>8. g.rules \in [Chains(g) -> Seq(Rule)]
  <2>1. g.rules = [c \in Chains(h) |-> g.rules[c]]
    BY <1>1
  <2> QED
    BY <1>2, <1>7, <2>1
<1>9. \A b \in BuiltIns :
         g.policy[b].verdict = h.policy[b].verdict /\ g.policy[b].map \in Map /\ Fresh(t, g.policy[b])
  <2> TAKE b \in BuiltIns
  <2> DEFINE p == PolicyAt(t, B[b + 1], h.policy[b].verdict)
  <2>1. g.policy[b] = p
    BY <1>1
  <2>2. p.verdict = h.policy[b].verdict /\ p.map \in Map /\ Fresh(t, p)
    BY <1>5
  <2> HIDE DEF p
  <2> QED
    BY <2>1, <2>2
<1>10. DOMAIN g.policy = BuiltIns
  BY <1>1
<1>11. Ruled(g)
  <2>1. BuiltIns \subseteq Chains(g) /\ Chains(g) \subseteq Names
    BY <1>2 DEF Ruled
  <2>2. ASSUME NEW c \in Chains(h), NEW n \in 1..Len(h.rules[c])
        PROVE  RuleFits(g.rules[c][n], Chains(h))
    <3>1. RuleFits(h.rules[c][n], Chains(h))
      BY DEF Ruled
    <3>2. g.rules[c][n].type = h.rules[c][n].type /\ g.rules[c][n].arg = h.rules[c][n].arg
      BY <1>6
    <3> QED
      BY <3>1, <3>2 DEF RuleFits
  <2>3. \A b \in BuiltIns : g.policy[b].verdict \in {Accept, Drop}
    BY <1>9 DEF Ruled
  <2> QED
    BY <1>2, <1>7, <2>1, <2>2, <2>3 DEF Ruled
<1>12. g.references = [c \in Chains(g) |-> Cardinality(JumpsTo(g.rules, c))]
  BY <1>1, <1>2
<1> QED
  BY <1>1, <1>2, <1>6, <1>7, <1>8, <1>9, <1>10, <1>11, <1>12 DEF g, ReadOf

-----------------------------------------------------------------------------
\* Compiling a handle gives such a table.

\* What has a counter in a handle: rules and policies.
Carriers(h) ==
    (UNION {{h.rules[c][n] : n \in 1..Len(h.rules[c])} : c \in Chains(h)})
        \cup {h.policy[b] : b \in BuiltIns}

\* What has the counter of a slot.
Carrier(h, slot) ==
    IF slot.what = "rule" THEN h.rules[slot.chain][slot.n] ELSE h.policy[slot.chain]

\* Which slots there are, and which have a counter.
LEMMA SlotsLaid ==
    ASSUME NEW h, Ruled(h), NEW i \in DOMAIN Layout(h)
    PROVE  LET slot == Layout(h)[i]
           IN  /\ \/ slot.what \in {"head", "end"} /\ slot.chain \in Names \cup {None}
                  \/ /\ slot.what = "rule" /\ slot.chain \in Chains(h)
                     /\ slot.n \in 1..Len(h.rules[slot.chain])
                  \/ slot.what = "foot" /\ slot.chain \in Chains(h)
               /\ Kept(slot) => Carrier(h, slot) \in Carriers(h)
<1>1. PICK B : Laid(h, B)
  BY LaidOut
<1> DEFINE slot == Layout(h)[i]
<1>2. B[Count] \in Nat /\ DOMAIN Layout(h) = 1..(B[Count] + 1) /\ Layout(h) \in Seq(Slots)
  <2>1. B[Count] \in Nat /\ Len(Layout(h)) = B[Count] + 1
    BY <1>1, EndsLaid
  <2>2. Layout(h) \in Seq(Slots)
    BY <1>1 DEF Laid
  <2> QED
    BY <2>1, <2>2
<1>3. \A what, d, n : /\ Slot(what, d, n).what = what /\ Slot(what, d, n).chain = d
                      /\ Slot(what, d, n).n = n
  BY DEF Slot
<1>4. \/ slot.what \in {"head", "end"} /\ slot.chain \in Names \cup {None}
      \/ slot.what = "rule" /\ slot.chain \in Chains(h) /\ slot.n \in 1..Len(h.rules[slot.chain])
      \/ slot.what = "foot" /\ slot.chain \in Chains(h)
  <2>1. CASE i = B[Count] + 1
    <3>1. slot = Slot("end", None, 0)
      BY <1>1, <2>1 DEF Laid
    <3> QED
      BY <1>3, <3>1
  <2>2. CASE i # B[Count] + 1
    <3>1. i \in 1..B[Count]
      BY <1>2, <2>2
    <3>2. PICK c \in Chains(h) :
              \/ slot = Slot("head", c, 0)
              \/ \E n \in 1..Len(h.rules[c]) : slot = Slot("rule", c, n)
              \/ slot = Slot("foot", c, 0)
      BY <1>1, <3>1, Located
    <3>3. c \in Names
      BY DEF Ruled
    <3> HIDE DEF slot
    <3> QED
      BY <1>3, <3>2, <3>3
  <2> QED
    BY <2>1, <2>2
<1> HIDE DEF slot
<1>5. Kept(slot) => Carrier(h, slot) \in Carriers(h)
  BY <1>4 DEF Kept, Carrier, Carriers
<1> QED
  BY <1>4, <1>5 DEF slot

\* Compiling makes a table of the handle.
LEMMA CompiledShaped ==
    ASSUME NEW h, Ruled(h), \A r \in Carriers(h) : Due(r) \in Counters
    PROVE  /\ Shaped(Compile(h), h)
           /\ \A i \in DOMAIN Layout(h) :
                 /\ Compile(h).entries[i].counters = 0
                 /\ Kept(Layout(h)[i]) =>
                       Compile(h).entries[i].due = Due(Carrier(h, Layout(h)[i]))
<1> DEFINE L == Layout(h)
           O == LayoutOffsets(h)
           t == Compile(h)
           Compiled(i) ==
               LET slot == L[i] IN
               CASE slot.what = "rule" ->
                       CompileRule(h, h.rules[slot.chain][slot.n], O[i])
                 [] slot.what = "foot" ->
                       IF slot.chain \in BuiltIns
                       THEN Entry("standard", h.policy[slot.chain].verdict, FootSize,
                                  Due(h.policy[slot.chain]))
                       ELSE Entry("standard", Return, FootSize, None)
                 [] OTHER -> Entry("error", slot.chain, StartSize, None)
<1>1. /\ t.entries = [i \in DOMAIN L |-> Compiled(i)]
      /\ t.hook_entry = [b \in BuiltIns |-> HeadOffset(h, b)]
  BY DEF Compile
<1>2. PICK B : Laid(h, B)
  BY LaidOut
<1>3. L \in Seq(Slots) /\ Len(L) \in Nat /\ DOMAIN L = 1..Len(L) /\ Len(L) = B[Count] + 1
  BY <1>2, EndsLaid DEF Laid
<1>4. O \in [1..Len(L) -> Nat]
  BY <1>2, <1>3, OffsetsLaid
<1>5. /\ None \notin Int /\ BuiltIns \subseteq Int /\ UserChains \subseteq Int /\ Names \subseteq Int
      /\ 0 \in Counters /\ Counters \subseteq Int
  <2>1. Names \subseteq Int /\ BuiltIns \subseteq Names /\ UserChains \subseteq Names
    BY NamesCounted DEF Names
  <2>2. 0 \in Counters /\ Counters \subseteq Int /\ None \notin Int
    BY RulesetAssumption DEF Counters
  <2> QED
    BY <2>1, <2>2
<1> HIDE DEF L, O, Compiled, t
<1>6. ASSUME NEW i \in 1..Len(L)
      PROVE  LET slot == L[i]
                 e == Compiled(i)
             IN /\ e \in KernelEntries
                /\ e.target = Target(h, slot)
                /\ e.arg = Arg(h, slot, O[i])
                /\ e.size = SlotSize(h, slot)
                /\ e.counters = 0
                /\ e.due # None <=> Kept(slot)
                /\ Kept(slot) => e.due = Due(Carrier(h, slot))
  <2> DEFINE slot == L[i]
             e == Compiled(i)
             c == slot.chain
  <2>1. /\ \/ slot.what \in {"head", "end"} /\ c \in Names \cup {None}
           \/ slot.what = "rule" /\ c \in Chains(h) /\ slot.n \in 1..Len(h.rules[c])
           \/ slot.what = "foot" /\ c \in Chains(h)
        /\ Kept(slot) => Carrier(h, slot) \in Carriers(h)
    BY <1>3, SlotsLaid DEF L
  <2>2. Kept(slot) => Due(Carrier(h, slot)) \in Counters /\ Due(Carrier(h, slot)) # None
    BY <1>5, <2>1
  <2>3. O[i] \in Nat
    BY <1>4
  <2> SUFFICES /\ e \in KernelEntries
               /\ e.target = Target(h, slot)
               /\ e.arg = Arg(h, slot, O[i])
               /\ e.size = SlotSize(h, slot)
               /\ e.counters = 0
               /\ e.due # None <=> Kept(slot)
               /\ Kept(slot) => e.due = Due(Carrier(h, slot))
    OBVIOUS
  <2>4. CASE slot.what \in {"head", "end"}
    <3>1. e = Entry("error", c, StartSize, None) /\ ~Kept(slot)
      BY <2>4 DEF Compiled, Kept
    <3>2. /\ Target(h, slot) = "error" /\ Arg(h, slot, O[i]) = c /\ SlotSize(h, slot) = StartSize
      BY <2>4 DEF Target, Arg, SlotSize
    <3>3. c \in Int \cup {None}
      BY <1>5, <2>1, <2>4
    <3> HIDE DEF e, slot, c
    <3> QED
      BY <1>5, <3>1, <3>2, <3>3 DEF Entry, KernelEntries
  <2>5. CASE slot.what = "foot" /\ c \in BuiltIns
    <3> DEFINE p == h.policy[c]
    <3>1. e = Entry("standard", p.verdict, FootSize, Due(p)) /\ Kept(slot) /\ Carrier(h, slot) = p
      BY <2>5 DEF Compiled, Kept, Carrier
    <3>2. /\ Target(h, slot) = "standard" /\ Arg(h, slot, O[i]) = p.verdict
          /\ SlotSize(h, slot) = FootSize
      BY <2>5 DEF Target, Arg, SlotSize
    <3>3. p.verdict \in Int
      BY <2>5 DEF Ruled, Accept, Drop
    <3> HIDE DEF e, slot, c, p
    <3> QED
      BY <1>5, <2>2, <3>1, <3>2, <3>3 DEF Entry, KernelEntries
  <2>6. CASE slot.what = "foot" /\ c \notin BuiltIns
    <3>1. e = Entry("standard", Return, FootSize, None) /\ ~Kept(slot)
      BY <2>6 DEF Compiled, Kept
    <3>2. /\ Target(h, slot) = "standard" /\ Arg(h, slot, O[i]) = Return
          /\ SlotSize(h, slot) = FootSize
      BY <2>6 DEF Target, Arg, SlotSize
    <3>3. Return \in Int
      BY DEF Return
    <3> HIDE DEF e, slot, c
    <3> QED
      BY <1>5, <3>1, <3>2, <3>3 DEF Entry, KernelEntries
  <2>7. CASE slot.what = "rule"
    <3> DEFINE r == h.rules[c][slot.n]
    <3>1. e = CompileRule(h, r, O[i]) /\ Kept(slot) /\ Carrier(h, slot) = r
      BY <2>7 DEF Compiled, Kept, Carrier
    <3>2. /\ Target(h, slot) = IF r.type = "module" THEN "module" ELSE "standard"
          /\ Arg(h, slot, O[i]) = RuleArg(h, r, O[i]) /\ SlotSize(h, slot) = RuleSize(r.type)
      BY <2>7 DEF Target, Arg, SlotSize
    <3>3. RuleFits(r, Chains(h))
      BY <2>1, <2>7 DEF Ruled
    <3> HIDE DEF e, slot, r
    <3>4. e = Entry(IF r.type = "module" THEN "module" ELSE "standard", RuleArg(h, r, O[i]),
                    RuleSize(r.type), Due(r))
      BY <3>1 DEF CompileRule, RuleArg
    <3>5. RuleArg(h, r, O[i]) \in Int \cup Modules
      <4>1. CASE r.type = "jump"
        <5>1. r.arg \in Chains(h) /\ r.arg \notin BuiltIns
          BY <3>3, <4>1, NamesCounted DEF RuleFits
        <5> DEFINE d == r.arg
        <5>2. JumpVerdict(h, d) = O[B[d] + 2] /\ B[d] + 2 \in 2..B[Count]
          BY <1>2, <5>1, JumpLaid DEF O
        <5>3. B[d] + 2 \in 1..Len(L)
          BY <1>2, <1>3, <5>2, EndsLaid
        <5>4. O[B[d] + 2] \in Nat
          BY <1>4, <5>3
        <5> QED
          BY <4>1, <5>2, <5>4 DEF RuleArg
      <4>2. CASE r.type = "fallthrough"
        <5>1. RuleSize(r.type) \in Int
          BY DEF RuleSize, FootSize
        <5> QED
          BY <2>3, <4>2, <5>1 DEF RuleArg
      <4>3. CASE r.type = "module"
        BY <1>5, <3>3, <4>3 DEF RuleArg, RuleFits
      <4>4. CASE r.type = "standard"
        BY <3>3, <4>4 DEF RuleArg, RuleFits, Accept
      <4> QED
        BY <3>3, <4>1, <4>2, <4>3, <4>4 DEF RuleFits
    <3>6. RuleSize(r.type) \in {FootSize, 4}
      BY DEF RuleSize
    <3> QED
      BY <1>5, <2>2, <3>1, <3>2, <3>4, <3>5, <3>6 DEF Entry, KernelEntries
  <2> QED
    BY <2>1, <2>4, <2>5, <2>6, <2>7
<1>7. /\ t.entries \in Seq(KernelEntries) /\ Len(t.entries) = Len(L)
      /\ \A i \in 1..Len(L) : t.entries[i] = Compiled(i)
  <2>1. t.entries \in [1..Len(L) -> KernelEntries]
    BY <1>1, <1>3, <1>6
  <2>2. \A i \in 1..Len(L) : t.entries[i] = Compiled(i)
    BY <1>1, <1>3
  <2> QED
    BY <1>3, <2>1, <2>2
<1>8. Shaped(t, h)
  BY <1>1, <1>6, <1>7 DEF Shaped, L, O
<1>9. \A i \in DOMAIN L :
         t.entries[i].counters = 0
         /\ (Kept(L[i]) => t.entries[i].due = Due(Carrier(h, L[i])))
  BY <1>3, <1>6, <1>7
<1> QED
  BY <1>8, <1>9 DEF t, L

\* Where jumps arrive in a table that is made of a handle.
LEMMA JumpsArriveShaped ==
    ASSUME NEW h, Ruled(h), NEW t, Shaped(t, h)
    PROVE  JumpsArrive(t)
<1>1. PICK B : Laid(h, B)
  BY LaidOut
<1> DEFINE O == LayoutOffsets(h)
           N == B[Count] + 1
<1>2. /\ Len(t.entries) = N /\ DOMAIN t.entries = 1..N /\ OffsetsOf(t) = O
      /\ t.entries[N].target = "error" /\ B[Count] \in Nat /\ N \in Nat
  BY <1>1, ShapedEntries, EndsLaid
<1> SUFFICES ASSUME NEW i \in 1..N, t.entries[i].target = "standard", t.entries[i].arg >= 0
             PROVE  \E j \in 2..N :
                       /\ O[j] = t.entries[i].arg
                       /\ j = i + 1 \/ t.entries[j - 1].target = "error"
  BY <1>2 DEF JumpsArrive
<1>3. i \in 1..B[Count]
  <2>1. i # N
    BY <1>2
  <2> QED
    BY <1>2, <2>1
<1>4. PICK c \in Chains(h) :
              /\ B[c] < i /\ i <= B[c + 1]
              /\ \/ c \notin BuiltIns /\ i = B[c] + 1 /\ Layout(h)[i] = Slot("head", c, 0)
                 \/ \E n \in 1..Len(h.rules[c]) :
                       i = B[c] + Headers(c) + n /\ Layout(h)[i] = Slot("rule", c, n)
                 \/ i = B[c + 1] /\ Layout(h)[i] = Slot("foot", c, 0)
  BY <1>1, <1>3, Located
<1>5. ~(c \notin BuiltIns /\ i = B[c] + 1)
  <2> SUFFICES ASSUME c \notin BuiltIns, i = B[c] + 1 PROVE FALSE
    OBVIOUS
  <2>1. t.entries[B[c] + 1].target = "error"
    BY <1>1, ShapedEntries
  <2> QED
    BY <2>1
<1>6. i # B[c + 1]
  <2> SUFFICES ASSUME i = B[c + 1] PROVE FALSE
    OBVIOUS
  <2>1. t.entries[i].arg = IF c \in BuiltIns THEN h.policy[c].verdict ELSE Return
    BY <1>1, ShapedEntries
  <2>2. c \in BuiltIns => h.policy[c].verdict \in {Accept, Drop}
    BY DEF Ruled
  <2> QED
    BY <2>1, <2>2 DEF Accept, Drop, Return
<1>7. PICK n \in 1..Len(h.rules[c]) :
         i = B[c] + Headers(c) + n /\ Layout(h)[i] = Slot("rule", c, n)
  BY <1>4, <1>5, <1>6
<1> DEFINE r == h.rules[c][n]
<1>8. /\ t.entries[i].target = IF r.type = "module" THEN "module" ELSE "standard"
      /\ t.entries[i].arg = RuleArg(h, r, O[i])
  BY <1>1, <1>7, ShapedEntries
<1>9. RuleFits(r, Chains(h))
  BY DEF Ruled
<1>10. CASE r.type = "standard"
  BY <1>8, <1>9, <1>10 DEF RuleArg, RuleFits, Accept
<1>11. CASE r.type = "module"
  BY <1>8, <1>11
<1>12. CASE r.type = "fallthrough"
  <2>1. \A j \in 2..N : O[j] = O[j - 1] + SlotSize(h, Layout(h)[j - 1])
    BY <1>1, OffsetsLaid
  <2>2. (i + 1) - 1 = i /\ i + 1 \in 2..N
    BY <1>2, <1>3
  <2>3. SlotSize(h, Layout(h)[i]) = RuleSize(r.type)
    BY <1>7 DEF SlotSize, Slot
  <2>4. RuleArg(h, r, O[i]) = O[i] + RuleSize(r.type)
    BY <1>12 DEF RuleArg
  <2> HIDE DEF O, N, r
  <2>5. O[i + 1] = t.entries[i].arg
    BY <1>8, <2>1, <2>2, <2>3, <2>4
  <2> QED
    BY <2>2, <2>5
<1>13. CASE r.type = "jump"
  <2> DEFINE d == r.arg
             j == B[d] + 2
  <2>1. d \in Chains(h) /\ d \notin BuiltIns
    BY <1>9, <1>13, NamesCounted DEF RuleFits
  <2>2. /\ B[d] \in Nat /\ j \in 2..B[Count] /\ JumpVerdict(h, d) = O[j]
    <3>1. /\ B[d] \in Nat /\ B[d] + 2 \in 2..B[Count]
          /\ JumpVerdict(h, d) = LayoutOffsets(h)[B[d] + 2]
      BY <1>1, <2>1, JumpLaid
    <3> QED
      BY <3>1
  <2>3. j \in 2..N /\ j - 1 = B[d] + 1
    <3>1. (B[d] + 2) - 1 = B[d] + 1
      BY <2>2
    <3>2. j \in 2..N
      <4> HIDE DEF j
      <4> QED
        BY <1>2, <2>2
    <3> QED
      BY <3>1, <3>2
  <2>4. t.entries[B[d] + 1].target = "error"
    BY <1>1, <2>1, ShapedEntries
  <2>5. t.entries[i].arg = O[j]
    BY <1>8, <1>13, <2>2 DEF RuleArg
  <2> HIDE DEF j, O
  <2> QED
    BY <2>3, <2>4, <2>5
<1> QED
  BY <1>9, <1>10, <1>11, <1>12, <1>13 DEF RuleFits

\* What is read of a table that is made of a handle is the handle's content.
LEMMA ContentShaped ==
    ASSUME NEW h, Ruled(h), NEW t, Shaped(t, h)
    PROVE  Content(Parse(t)) = Content(h)
<1> DEFINE g == Parse(t)
           Of(x, c) == [n \in DOMAIN x.rules[c] |->
                           [type |-> x.rules[c][n].type, arg |-> x.rules[c][n].arg]]
<1>1. PICK B : Laid(h, B)
  BY LaidOut
<1>2. /\ Chains(g) = Chains(h)
      /\ g.rules \in [Chains(g) -> Seq(Rule)]
      /\ \A c \in Chains(h) :
            /\ Len(g.rules[c]) = Len(h.rules[c])
            /\ \A n \in 1..Len(h.rules[c]) :
                  g.rules[c][n].type = h.rules[c][n].type /\ g.rules[c][n].arg = h.rules[c][n].arg
      /\ \A b \in BuiltIns : g.policy[b].verdict = h.policy[b].verdict
  <2>1. ReadOf(t, h, g)
    BY <1>1, ParsedRules
  <2> HIDE DEF g
  <2> QED
    BY <2>1 DEF ReadOf
<1> HIDE DEF g
<1>3. ASSUME NEW c \in Chains(h) PROVE Of(g, c) = Of(h, c)
  <2>1. g.rules[c] \in Seq(Rule) /\ h.rules[c] \in Seq(Rule)
    BY <1>2 DEF Ruled
  <2>2. DOMAIN g.rules[c] = 1..Len(h.rules[c]) /\ DOMAIN h.rules[c] = 1..Len(h.rules[c])
    BY <1>2, <2>1
  <2> QED
    BY <1>2, <2>2
<1>4. \A x : Content(x) = [policy |-> [b \in BuiltIns |-> x.policy[b].verdict],
                          rules |-> [c \in Chains(x) |-> Of(x, c)]]
  BY DEF Content
<1> HIDE DEF Of
<1>5. [c \in Chains(g) |-> Of(g, c)] = [c \in Chains(h) |-> Of(h, c)]
  BY <1>2, <1>3
<1>6. [b \in BuiltIns |-> g.policy[b].verdict] = [b \in BuiltIns |-> h.policy[b].verdict]
  BY <1>2
<1> QED
  BY <1>4, <1>5, <1>6 DEF g

-----------------------------------------------------------------------------
\* Counting the jumps to a chain while its callers are edited.

\* Where there are rules, and which of them jump to d.
JumpsKnown(S, rules, d) ==
    /\ IsFiniteSet(AllRules(rules))
    /\ \A at \in AllRules(rules) : at = <<at[1], at[2]>>
    /\ \A e, n : <<e, n>> \in AllRules(rules) <=> e \in S /\ n \in 1..Len(rules[e])
    /\ IsFiniteSet(JumpsTo(rules, d)) /\ Cardinality(JumpsTo(rules, d)) \in Nat
    /\ \A at \in JumpsTo(rules, d) : at = <<at[1], at[2]>>
    /\ \A e, n :
          <<e, n>> \in JumpsTo(rules, d) <=>
             /\ e \in S /\ n \in 1..Len(rules[e])
             /\ rules[e][n].type = "jump" /\ rules[e][n].arg = d

\* A handle has finitely many rules, and so finitely many jumps.
LEMMA JumpPlaces ==
    ASSUME NEW S \in SUBSET Names, NEW rules \in [S -> Seq(Rule)], NEW d
    PROVE  JumpsKnown(S, rules, d)
<1> DEFINE f == [c \in S |-> {c} \X DOMAIN rules[c]]
           T == {f[c] : c \in S}
<1>1. \A c \in S : DOMAIN rules[c] = 1..Len(rules[c]) /\ Len(rules[c]) \in Nat
  OBVIOUS
<1>2. DOMAIN rules = S
  OBVIOUS
<1>3. AllRules(rules) = UNION T
  BY <1>2 DEF AllRules
<1>4. \A at \in AllRules(rules) : at = <<at[1], at[2]>>
  BY <1>3
<1>5. \A e, n : <<e, n>> \in AllRules(rules) <=> e \in S /\ n \in 1..Len(rules[e])
  BY <1>1, <1>3
<1>6. IsFiniteSet(S)
  <2>1. IsFiniteSet(Names)
    <3>1. Count \in Nat /\ Names = 0..(Count - 1)
      BY NamesCounted
    <3>2. 0 \in Int /\ Count - 1 \in Int
      BY <3>1
    <3> QED
      BY <3>1, <3>2, FS_Interval
  <2> QED
    BY <2>1, FS_Subset
<1>7. \A c \in S : IsFiniteSet(f[c])
  <2> TAKE c \in S
  <2>1. f[c] = {c} \X (1..Len(rules[c]))
    BY <1>1
  <2>2. IsFiniteSet({c})
    BY FS_Singleton
  <2>3. IsFiniteSet(1..Len(rules[c]))
    <3>1. 1 \in Int /\ Len(rules[c]) \in Int
      BY <1>1
    <3> QED
      BY <3>1, FS_Interval
  <2> QED
    BY <2>1, <2>2, <2>3, FS_Product
<1>8. IsFiniteSet(T)
  <2>1. f \in Surjection(S, T)
    <3> DEFINE G == [x \in S |-> f[x]]
    <3>1. f \in [S -> T]
      OBVIOUS
    <3>2. \A y \in T : \E x \in S : f[x] = y
      OBVIOUS
    <3> HIDE DEF f, T
    <3> QED
      BY <3>1, <3>2 DEF Surjection
  <2> HIDE DEF f, T
  <2> QED
    BY <1>6, <2>1, FS_Surjection
<1>9. IsFiniteSet(AllRules(rules))
  <2>1. \A t \in T : IsFiniteSet(t)
    BY <1>7
  <2> HIDE DEF T
  <2> QED
    BY <1>3, <1>8, <2>1, FS_UNION
<1>10. JumpsTo(rules, d) \in SUBSET AllRules(rules)
  BY DEF JumpsTo
<1>11. IsFiniteSet(JumpsTo(rules, d)) /\ Cardinality(JumpsTo(rules, d)) \in Nat
  <2>1. IsFiniteSet(JumpsTo(rules, d))
    BY <1>9, <1>10, FS_Subset
  <2> QED
    BY <2>1, FS_CardinalityType
<1>12. \A e, n :
          <<e, n>> \in JumpsTo(rules, d) <=>
             /\ e \in S /\ n \in 1..Len(rules[e])
             /\ rules[e][n].type = "jump" /\ rules[e][n].arg = d
  BY <1>5 DEF JumpsTo, JumpsAt
<1>13. \A at \in JumpsTo(rules, d) : at = <<at[1], at[2]>>
  BY <1>4, <1>10
<1> QED
  BY <1>4, <1>5, <1>9, <1>11, <1>12, <1>13 DEF JumpsKnown

\* How many jumps to d rule r is.
One(r, d) == IF r.type = "jump" /\ r.arg = d THEN 1 ELSE 0

\* The rules with r put at place p of chain c.
Put(rules, c, p, r) == [rules EXCEPT ![c] = InsertAt(rules[c], p, r)]

\* A jump that is put somewhere is one more.
LEMMA InsertedJumps ==
    ASSUME NEW S \in SUBSET Names, NEW rules \in [S -> Seq(Rule)], NEW c \in S,
           NEW p \in 1..(Len(rules[c]) + 1), NEW r \in Rule, NEW d
    PROVE  /\ Put(rules, c, p, r) \in [S -> Seq(Rule)]
           /\ Cardinality(JumpsTo(Put(rules, c, p, r), d)) =
                 Cardinality(JumpsTo(rules, d)) + One(r, d)
<1> DEFINE s == rules[c]
           q == InsertAt(s, p, r)
           new == [rules EXCEPT ![c] = q]
           l == Len(s)
           I == JumpsTo(rules, d)
           J == JumpsTo(new, d)
           T == J \ {<<c, p>>}
           Up(at) == IF at[1] = c /\ at[2] >= p THEN <<c, at[2] + 1>> ELSE at
           up == [at \in I |-> Up(at)]
<1>1. s \in Seq(Rule) /\ l \in Nat
  OBVIOUS
<1>2. /\ q \in Seq(Rule) /\ Len(q) = l + 1
      /\ \A i \in 1..(p - 1) : q[i] = s[i]
      /\ q[p] = r
      /\ \A i \in p..l : q[i + 1] = s[i]
  BY InsertAtProperties
<1> HIDE DEF q
<1>3. new \in [S -> Seq(Rule)] /\ new[c] = q /\ \A e \in S : e # c => new[e] = rules[e]
  BY <1>2
<1> HIDE DEF new
<1> HIDE DEF Up, up, s, l
<1>4. /\ IsFiniteSet(I) /\ Cardinality(I) \in Nat
      /\ \A at \in I : at = <<at[1], at[2]>>
      /\ \A e, n : <<e, n>> \in I <=>
            /\ e \in S /\ n \in 1..Len(rules[e]) /\ rules[e][n].type = "jump" /\ rules[e][n].arg = d
  <2>1. JumpsKnown(S, rules, d)
    BY JumpPlaces
  <2> QED
    BY <2>1 DEF JumpsKnown
<1>5. /\ IsFiniteSet(J) /\ Cardinality(J) \in Nat
      /\ \A at \in J : at = <<at[1], at[2]>>
      /\ \A e, n : <<e, n>> \in J <=>
            /\ e \in S /\ n \in 1..Len(new[e]) /\ new[e][n].type = "jump" /\ new[e][n].arg = d
  <2>1. JumpsKnown(S, new, d)
    BY <1>3, JumpPlaces
  <2> QED
    BY <2>1 DEF JumpsKnown
<1> HIDE DEF I, J
<1> USE DEF Up
<1>6. ASSUME NEW e, NEW n, <<e, n>> \in I PROVE Up(<<e, n>>) \in T
  <2>1. e \in S /\ n \in 1..Len(rules[e]) /\ rules[e][n].type = "jump" /\ rules[e][n].arg = d
    BY <1>4, <1>6
  <2>2. CASE e = c /\ n >= p
    <3>1. n \in p..l /\ n + 1 \in 1..Len(q) /\ q[n + 1] = s[n] /\ n + 1 # p
      BY <1>1, <1>2, <2>1, <2>2 DEF s, l
    <3>2. <<c, n + 1>> \in J
      BY <1>3, <1>5, <2>1, <2>2, <3>1 DEF s
    <3>3. Up(<<e, n>>) = <<c, n + 1>> /\ <<c, n + 1>> # <<c, p>>
      BY <2>2, <3>1
    <3> QED
      BY <3>2, <3>3
  <2>3. CASE e = c /\ ~(n >= p)
    <3>1. n \in 1..(p - 1) /\ n \in 1..Len(q) /\ q[n] = s[n] /\ n # p
      BY <1>1, <1>2, <2>1, <2>3 DEF s, l
    <3>2. <<e, n>> \in J
      BY <1>3, <1>5, <2>1, <2>3, <3>1 DEF s
    <3>3. Up(<<e, n>>) = <<e, n>> /\ <<e, n>> # <<c, p>>
      BY <2>3, <3>1
    <3> QED
      BY <3>2, <3>3
  <2>4. CASE e # c
    <3>1. <<e, n>> \in J
      BY <1>3, <1>5, <2>1, <2>4
    <3>2. Up(<<e, n>>) = <<e, n>> /\ <<e, n>> # <<c, p>>
      BY <2>4
    <3> QED
      BY <3>1, <3>2
  <2> QED
    BY <2>2, <2>3, <2>4
<1>7. ASSUME NEW e, NEW n, <<e, n>> \in T PROVE \E at \in I : Up(at) = <<e, n>>
  <2>1. e \in S /\ n \in 1..Len(new[e]) /\ new[e][n].type = "jump" /\ new[e][n].arg = d
        /\ <<e, n>> # <<c, p>>
    BY <1>5, <1>7
  <2>2. CASE e = c /\ n > p
    <3>1. /\ n - 1 \in p..l /\ (n - 1) + 1 = n /\ n - 1 \in 1..Len(rules[c]) /\ n - 1 >= p
          /\ q[n] = s[n - 1]
      <4>1. n - 1 \in p..l /\ (n - 1) + 1 = n /\ n - 1 \in 1..Len(rules[c]) /\ n - 1 >= p
        BY <1>1, <1>2, <1>3, <2>1, <2>2 DEF s, l
      <4>2. q[(n - 1) + 1] = s[n - 1]
        BY <1>2, <4>1
      <4> QED
        BY <4>1, <4>2
    <3>2. <<c, n - 1>> \in I
      BY <1>3, <1>4, <2>1, <2>2, <3>1 DEF s
    <3>3. Up(<<c, n - 1>>) = <<e, n>>
      BY <2>2, <3>1
    <3> HIDE DEF Up
    <3> QED
      BY <3>2, <3>3
  <2>3. CASE e = c /\ ~(n > p)
    <3>1. n \in 1..(p - 1) /\ n \in 1..Len(rules[c]) /\ q[n] = s[n] /\ ~(n >= p)
      <4>1. n # p
        BY <2>1, <2>3
      <4>2. n \in 1..(p - 1) /\ n \in 1..Len(rules[c]) /\ ~(n >= p)
        BY <1>1, <1>2, <1>3, <2>1, <2>3, <4>1 DEF s, l
      <4> QED
        BY <1>2, <4>2
    <3>2. <<e, n>> \in I
      BY <1>3, <1>4, <2>1, <2>3, <3>1 DEF s
    <3>3. Up(<<e, n>>) = <<e, n>>
      BY <2>3, <3>1
    <3> HIDE DEF Up
    <3> QED
      BY <3>2, <3>3
  <2>4. CASE e # c
    <3>1. <<e, n>> \in I
      BY <1>3, <1>4, <2>1, <2>4
    <3>2. Up(<<e, n>>) = <<e, n>>
      BY <2>4
    <3> HIDE DEF Up
    <3> QED
      BY <3>1, <3>2
  <2>5. n \in Int /\ p \in Int
    BY <1>1, <2>1 DEF l
  <2> QED
    BY <2>2, <2>3, <2>4
<1>8. ASSUME NEW e, NEW n, NEW x, NEW m, <<e, n>> \in I, <<x, m>> \in I, Up(<<e, n>>) = Up(<<x, m>>)
      PROVE  e = x /\ n = m
  <2>1. e \in S /\ n \in Nat /\ x \in S /\ m \in Nat /\ p \in Nat
    BY <1>1, <1>4, <1>8 DEF l
  <2>2. CASE e = c /\ n >= p
    <3>1. Up(<<e, n>>) = <<c, n + 1>>
      BY <2>2
    <3>2. CASE x = c /\ m >= p
      <4>1. Up(<<x, m>>) = <<c, m + 1>>
        BY <3>2
      <4>2. n + 1 = m + 1
        BY <1>8, <3>1, <4>1
      <4> QED
        BY <2>1, <2>2, <3>2, <4>2
    <3>3. CASE ~(x = c /\ m >= p)
      <4>1. Up(<<x, m>>) = <<x, m>>
        BY <3>3
      <4>2. x = c /\ m = n + 1
        BY <1>8, <3>1, <4>1
      <4> QED
        BY <2>1, <2>2, <3>3, <4>2
    <3> QED
      BY <3>2, <3>3
  <2>3. CASE ~(e = c /\ n >= p)
    <3>1. Up(<<e, n>>) = <<e, n>>
      BY <2>3
    <3>2. CASE x = c /\ m >= p
      <4>1. Up(<<x, m>>) = <<c, m + 1>>
        BY <3>2
      <4>2. e = c /\ n = m + 1
        BY <1>8, <3>1, <4>1
      <4> QED
        BY <2>1, <2>3, <3>2, <4>2
    <3>3. CASE ~(x = c /\ m >= p)
      <4>1. Up(<<x, m>>) = <<x, m>>
        BY <3>3
      <4> QED
        BY <1>8, <3>1, <4>1
    <3> QED
      BY <3>2, <3>3
  <2> QED
    BY <2>2, <2>3
<1> HIDE DEF Up
<1>9. up \in Bijection(I, T)
  <2> USE DEF up
  <2>1. up \in [I -> T]
    <3>1. \A at \in I : Up(at) \in T
      BY <1>4, <1>6
    <3> HIDE DEF T
    <3> QED
      BY <3>1
  <2>2. \A at, ab \in I : up[at] = up[ab] => at = ab
    <3> SUFFICES ASSUME NEW at \in I, NEW ab \in I, Up(at) = Up(ab) PROVE at = ab
      OBVIOUS
    <3>1. at = <<at[1], at[2]>> /\ ab = <<ab[1], ab[2]>>
      BY <1>4
    <3>2. at[1] = ab[1] /\ at[2] = ab[2]
      BY <1>8, <3>1
    <3> QED
      BY <3>1, <3>2
  <2>3. \A y \in T : \E x \in I : up[x] = y
    <3> SUFFICES ASSUME NEW y \in T PROVE \E x \in I : Up(x) = y
      OBVIOUS
    <3>1. y = <<y[1], y[2]>>
      BY <1>5
    <3> QED
      BY <1>7, <3>1
  <2> HIDE DEF up, T
  <2> QED
    BY <2>1, <2>2, <2>3 DEF Bijection, Injection, Surjection, IsInjective
<1>10. Cardinality(T) = Cardinality(I)
  <2>1. ExistsBijection(I, T)
    BY <1>9 DEF ExistsBijection
  <2> QED
    BY <1>4, <2>1, FS_Bijection
<1>11. Cardinality(T) = IF <<c, p>> \in J THEN Cardinality(J) - 1 ELSE Cardinality(J)
  BY <1>5, FS_RemoveElement
<1>12. <<c, p>> \in J <=> r.type = "jump" /\ r.arg = d
  <2>1. p \in 1..Len(q) /\ c \in S
    BY <1>1, <1>2 DEF l, s
  <2> QED
    BY <1>2, <1>3, <1>5, <2>1
<1>13. Cardinality(J) = Cardinality(I) + One(r, d)
  BY <1>4, <1>5, <1>10, <1>11, <1>12 DEF One
<1> QED
  BY <1>3, <1>13 DEF new, I, J, q, s, Put

\* The rules without the one at place k of chain c, with another there,
\* without those of chain c.
Cut(rules, c, k) == [rules EXCEPT ![c] = RemoveAt(rules[c], k)]

\* The rules with rule k of chain c replaced.
Swap(rules, c, k, r) == [rules EXCEPT ![c] = [rules[c] EXCEPT ![k] = r]]

\* The rules without those of chain c.
Bare(rules, c) == [rules EXCEPT ![c] = <<>>]

\* The place k of chain c, and the places of all rules of chain c.
Place(c, k) == {<<c, k>>}
Within(rules, c) == {at \in AllRules(rules) : at[1] = c}

\* How many of the rules at some places jump to d.
Gone(rules, gone, d) == Cardinality({at \in gone : JumpsAt(rules, at, d)})

\* A jump that is taken away is one less.
LEMMA RemovedJumps ==
    ASSUME NEW S \in SUBSET Names, NEW rules \in [S -> Seq(Rule)], NEW c \in S,
           NEW k \in 1..Len(rules[c]), NEW d
    PROVE  /\ Cut(rules, c, k) \in [S -> Seq(Rule)]
           /\ Cardinality(JumpsTo(Cut(rules, c, k), d)) \in Nat
           /\ Cardinality(JumpsTo(rules, d)) =
                 Cardinality(JumpsTo(Cut(rules, c, k), d)) + One(rules[c][k], d)
<1> DEFINE s == rules[c]
           r == s[k]
           q == RemoveAt(s, k)
           l == Len(s)
           new == [rules EXCEPT ![c] = q]
<1>1. s \in Seq(Rule) /\ l \in Nat /\ r \in Rule
  OBVIOUS
<1>2. /\ q \in Seq(Rule) /\ Len(q) = l - 1
      /\ \A i \in 1..(k - 1) : q[i] = s[i]
      /\ \A i \in k..(l - 1) : q[i] = s[i + 1]
  <2>1. k \in 1..Len(s)
    OBVIOUS
  <2> HIDE DEF s
  <2> QED
    BY <1>1, <2>1, RemoveAtProperties
<1>3. k \in 1..(Len(q) + 1)
  BY <1>1, <1>2
<1> DEFINE back == InsertAt(q, k, r)
<1>4. /\ back \in Seq(Rule) /\ Len(back) = Len(q) + 1
      /\ \A i \in 1..(k - 1) : back[i] = q[i]
      /\ back[k] = r
      /\ \A i \in k..Len(q) : back[i + 1] = q[i]
  <2> HIDE DEF q, r
  <2> QED
    BY <1>1, <1>2, <1>3, InsertAtProperties
<1> HIDE DEF q, back
<1>5. new \in [S -> Seq(Rule)] /\ new[c] = q
  BY <1>2
<1>6. back = s
  <2>1. Len(back) = l
    BY <1>1, <1>2, <1>4
  <2>2. ASSUME NEW i \in 1..l PROVE back[i] = s[i]
    <3>1. CASE i < k
      <4>1. i \in 1..(k - 1)
        BY <3>1
      <4> QED
        BY <1>2, <1>4, <4>1
    <3>2. CASE i = k
      BY <1>4, <3>2
    <3>3. CASE i > k
      <4>1. i - 1 \in k..(l - 1) /\ i - 1 \in k..Len(q) /\ (i - 1) + 1 = i
        BY <1>1, <1>2, <3>3
      <4>2. back[(i - 1) + 1] = q[i - 1] /\ q[i - 1] = s[(i - 1) + 1]
        BY <1>2, <1>4, <4>1
      <4> QED
        BY <4>1, <4>2
    <3> QED
      BY <1>1, <3>1, <3>2, <3>3
  <2> QED
    BY <1>1, <1>4, <2>1, <2>2
<1>7. [new EXCEPT ![c] = back] = rules
  <2> HIDE DEF s
  <2>1. [new EXCEPT ![c] = s] = rules
    BY <1>5 DEF s
  <2> QED
    BY <1>6, <2>1
<1> HIDE DEF new, s
<1>8. Cardinality(JumpsTo([new EXCEPT ![c] = back], d)) = Cardinality(JumpsTo(new, d)) + One(r, d)
  <2>1. k \in 1..(Len(new[c]) + 1) /\ back = InsertAt(new[c], k, r)
    BY <1>3, <1>5 DEF back
  <2> HIDE DEF r
  <2>2. Cardinality(JumpsTo(Put(new, c, k, r), d)) = Cardinality(JumpsTo(new, d)) + One(r, d)
    BY <1>1, <1>5, <2>1, InsertedJumps
  <2>3. Put(new, c, k, r) = [new EXCEPT ![c] = back]
    BY <2>1 DEF Put
  <2> QED
    BY <2>2, <2>3
<1>9. Cardinality(JumpsTo(new, d)) \in Nat
  <2>1. JumpsKnown(S, new, d)
    BY <1>5, JumpPlaces
  <2> QED
    BY <2>1 DEF JumpsKnown
<1> QED
  BY <1>5, <1>7, <1>8, <1>9 DEF new, s, q, r, Cut

\* A rule that takes the place of another.
LEMMA ReplacedJumps ==
    ASSUME NEW S \in SUBSET Names, NEW rules \in [S -> Seq(Rule)], NEW c \in S,
           NEW k \in 1..Len(rules[c]), NEW r \in Rule, NEW d
    PROVE  /\ Swap(rules, c, k, r) \in [S -> Seq(Rule)]
           /\ Cardinality(JumpsTo(rules, d)) \in Nat
           /\ Cardinality(JumpsTo(rules, d)) >= One(rules[c][k], d)
           /\ Cardinality(JumpsTo(Swap(rules, c, k, r), d)) =
                 Cardinality(JumpsTo(rules, d)) - One(rules[c][k], d) + One(r, d)
<1> DEFINE s == rules[c]
           q == [s EXCEPT ![k] = r]
           new == [rules EXCEPT ![c] = q]
           I == JumpsTo(rules, d)
           J == JumpsTo(new, d)
<1>1. s \in Seq(Rule) /\ q \in Seq(Rule) /\ Len(q) = Len(s) /\ Len(s) \in Nat
      /\ q[k] = r /\ \A i \in 1..Len(s) : i # k => q[i] = s[i]
  OBVIOUS
<1> HIDE DEF q
<1>2. new \in [S -> Seq(Rule)] /\ new[c] = q /\ \A e \in S : e # c => new[e] = rules[e]
  BY <1>1
<1> HIDE DEF new
<1>3. JumpsKnown(S, rules, d) /\ JumpsKnown(S, new, d)
  BY <1>2, JumpPlaces
<1>4. IsFiniteSet(I) /\ Cardinality(I) \in Nat /\ IsFiniteSet(J) /\ Cardinality(J) \in Nat
  BY <1>3 DEF JumpsKnown
<1>5. \A e, n : <<e, n>> # <<c, k>> => (<<e, n>> \in I <=> <<e, n>> \in J)
  <2> SUFFICES ASSUME NEW e, NEW n, <<e, n>> # <<c, k>> PROVE <<e, n>> \in I <=> <<e, n>> \in J
    OBVIOUS
  <2>1. /\ <<e, n>> \in I <=>
             /\ e \in S /\ n \in 1..Len(rules[e]) /\ rules[e][n].type = "jump" /\ rules[e][n].arg = d
        /\ <<e, n>> \in J <=>
             /\ e \in S /\ n \in 1..Len(new[e]) /\ new[e][n].type = "jump" /\ new[e][n].arg = d
    BY <1>3 DEF JumpsKnown
  <2> HIDE DEF I, J
  <2>2. CASE e = c
    <3>1. n # k
      BY <2>2
    <3> QED
      BY <1>1, <1>2, <2>1, <2>2, <3>1 DEF s
  <2>3. CASE e # c
    BY <1>2, <2>1, <2>3
  <2> QED
    BY <2>2, <2>3
<1>6. /\ <<c, k>> \in I <=> s[k].type = "jump" /\ s[k].arg = d
      /\ <<c, k>> \in J <=> r.type = "jump" /\ r.arg = d
  <2>1. k \in 1..Len(new[c]) /\ k \in 1..Len(rules[c])
    BY <1>1, <1>2
  <2> QED
    BY <1>1, <1>2, <1>3, <2>1 DEF JumpsKnown
<1>7. /\ \A at \in I : at = <<at[1], at[2]>>
      /\ \A at \in J : at = <<at[1], at[2]>>
  BY <1>3 DEF JumpsKnown
<1> HIDE DEF I, J, s
<1>8. I \ {<<c, k>>} = J \ {<<c, k>>}
  <2>1. \A at \in I : at # <<c, k>> => at \in J
    BY <1>5, <1>7
  <2>2. \A at \in J : at # <<c, k>> => at \in I
    BY <1>5, <1>7
  <2> QED
    BY <2>1, <2>2
<1>9. /\ Cardinality(I \ {<<c, k>>}) = IF <<c, k>> \in I THEN Cardinality(I) - 1 ELSE Cardinality(I)
      /\ Cardinality(J \ {<<c, k>>}) = IF <<c, k>> \in J THEN Cardinality(J) - 1 ELSE Cardinality(J)
      /\ Cardinality(I \ {<<c, k>>}) \in Nat
  <2>1. IsFiniteSet(I \ {<<c, k>>})
    BY <1>4, FS_RemoveElement
  <2> QED
    BY <1>4, <2>1, FS_RemoveElement, FS_CardinalityType
<1>10. Cardinality(I) >= One(s[k], d)
       /\ Cardinality(J) = Cardinality(I) - One(s[k], d) + One(r, d)
  <2> DEFINE i == Cardinality(I)
             j == Cardinality(J)
             m == Cardinality(I \ {<<c, k>>})
             x == One(s[k], d)
             y == One(r, d)
  <2>1. x = (IF <<c, k>> \in I THEN 1 ELSE 0) /\ y = (IF <<c, k>> \in J THEN 1 ELSE 0)
    BY <1>6 DEF One
  <2>2. m = i - x /\ m = j - y /\ m \in Nat /\ i \in Nat /\ j \in Nat /\ x \in {0, 1} /\ y \in {0, 1}
    <3>1. Cardinality(J \ {<<c, k>>}) = m
      BY <1>8
    <3> HIDE DEF x, y
    <3> QED
      BY <1>4, <1>9, <2>1, <3>1
  <2> HIDE DEF i, j, m, x, y
  <2>3. i >= x /\ j = i - x + y
    BY <2>2
  <2> QED
    BY <2>3 DEF i, j, x, y
<1> QED
  BY <1>2, <1>4, <1>10 DEF new, I, J, q, s, Swap

\* Without the rules of chain c.
LEMMA FlushedJumps ==
    ASSUME NEW S \in SUBSET Names, NEW rules \in [S -> Seq(Rule)], NEW c \in S, NEW d
    PROVE  /\ Bare(rules, c) \in [S -> Seq(Rule)]
           /\ Cardinality(JumpsTo(Bare(rules, c), d)) \in Nat
           /\ Cardinality(JumpsTo(Bare(rules, c), d)) =
                 Cardinality(JumpsTo(rules, d)) - Gone(rules, Within(rules, c), d)
<1> DEFINE new == [rules EXCEPT ![c] = <<>>]
           gone == {at \in AllRules(rules) : at[1] = c}
           I == JumpsTo(rules, d)
           J == JumpsTo(new, d)
           K == {at \in gone : JumpsAt(rules, at, d)}
<1>1. new \in [S -> Seq(Rule)] /\ new[c] = <<>> /\ \A e \in S : e # c => new[e] = rules[e]
  OBVIOUS
<1> HIDE DEF new
<1>2. JumpsKnown(S, rules, d) /\ JumpsKnown(S, new, d)
  BY <1>1, JumpPlaces
<1>3. IsFiniteSet(I) /\ Cardinality(J) \in Nat
  BY <1>2 DEF JumpsKnown
<1>4. K = {at \in I : at[1] = c}
  BY DEF JumpsTo
<1>5. \A e, n : <<e, n>> \in J <=> <<e, n>> \in I /\ e # c
  <2> TAKE e, n
  <2>1. /\ <<e, n>> \in I <=>
             /\ e \in S /\ n \in 1..Len(rules[e]) /\ rules[e][n].type = "jump" /\ rules[e][n].arg = d
        /\ <<e, n>> \in J <=>
             /\ e \in S /\ n \in 1..Len(new[e]) /\ new[e][n].type = "jump" /\ new[e][n].arg = d
    BY <1>2 DEF JumpsKnown
  <2> HIDE DEF I, J
  <2>2. CASE e = c
    <3>1. 1..Len(new[c]) = {}
      BY <1>1
    <3> QED
      BY <2>1, <2>2, <3>1
  <2>3. CASE e # c
    BY <1>1, <2>1, <2>3
  <2> QED
    BY <2>2, <2>3
<1>6. /\ \A at \in I : at = <<at[1], at[2]>>
      /\ \A at \in J : at = <<at[1], at[2]>>
  BY <1>2 DEF JumpsKnown
<1> HIDE DEF I, J, K
<1>7. J = I \ K
  <2>1. ASSUME NEW at \in J PROVE at \in I /\ at \notin K
    <3>1. at = <<at[1], at[2]>>
      BY <1>6
    <3>2. at \in I /\ at[1] # c
      BY <1>5, <3>1
    <3> QED
      BY <1>4, <3>2
  <2>2. ASSUME NEW at \in I, at \notin K PROVE at \in J
    <3>1. at = <<at[1], at[2]>> /\ at[1] # c
      BY <1>4, <1>6, <2>2
    <3> QED
      BY <1>5, <3>1
  <2> QED
    BY <2>1, <2>2
<1>8. I \cap K = K
  BY <1>4
<1>9. Cardinality(I \ K) = Cardinality(I) - Cardinality(I \cap K)
  BY <1>3, FS_Difference
<1>10. Cardinality(J) = Cardinality(I) - Cardinality(K)
  BY <1>7, <1>8, <1>9
<1> QED
  BY <1>1, <1>3, <1>10 DEF new, I, J, K, Bare, Gone, Within

\* The rules of the chains T that are like those of the chains S: other
\* chains have none.
Alike(S, rules, T, new) ==
    /\ \A e \in S : e \notin T => rules[e] = <<>>
    /\ \A e \in T : e \notin S => new[e] = <<>>
    /\ \A e \in S \cap T :
          /\ Len(new[e]) = Len(rules[e])
          /\ \A n \in 1..Len(rules[e]) :
                new[e][n].type = rules[e][n].type /\ new[e][n].arg = rules[e][n].arg

\* Such rules jump where the others do.
LEMMA SameJumps ==
    ASSUME NEW S \in SUBSET Names, NEW rules \in [S -> Seq(Rule)],
           NEW T \in SUBSET Names, NEW new \in [T -> Seq(Rule)], Alike(S, rules, T, new), NEW d
    PROVE  JumpsTo(new, d) = JumpsTo(rules, d)
<1> DEFINE I == JumpsTo(rules, d)
           J == JumpsTo(new, d)
<1>0. /\ \A e \in S : e \notin T => rules[e] = <<>>
      /\ \A e \in T : e \notin S => new[e] = <<>>
      /\ \A e \in S \cap T :
            /\ Len(new[e]) = Len(rules[e])
            /\ \A n \in 1..Len(rules[e]) :
                  new[e][n].type = rules[e][n].type /\ new[e][n].arg = rules[e][n].arg
  BY DEF Alike
<1>1. JumpsKnown(S, rules, d) /\ JumpsKnown(T, new, d)
  BY JumpPlaces
<1>2. \A e, n : <<e, n>> \in J <=> <<e, n>> \in I
  <2> TAKE e, n
  <2>1. /\ <<e, n>> \in I <=>
             /\ e \in S /\ n \in 1..Len(rules[e]) /\ rules[e][n].type = "jump" /\ rules[e][n].arg = d
        /\ <<e, n>> \in J <=>
             /\ e \in T /\ n \in 1..Len(new[e]) /\ new[e][n].type = "jump" /\ new[e][n].arg = d
    BY <1>1 DEF JumpsKnown
  <2>2. e \in S /\ e \notin T => 1..Len(rules[e]) = {}
    BY <1>0
  <2>3. e \in T /\ e \notin S => 1..Len(new[e]) = {}
    BY <1>0
  <2> HIDE DEF I, J
  <2> QED
    BY <1>0, <2>1, <2>2, <2>3
<1>3. /\ \A at \in I : at = <<at[1], at[2]>>
      /\ \A at \in J : at = <<at[1], at[2]>>
  BY <1>1 DEF JumpsKnown
<1> HIDE DEF I, J
<1>4. I = J
  <2>1. \A at \in I : at \in J
    BY <1>2, <1>3
  <2>2. \A at \in J : at \in I
    BY <1>2, <1>3
  <2> QED
    BY <2>1, <2>2
<1> QED
  BY <1>4 DEF I, J

-----------------------------------------------------------------------------
\* Every edit keeps the handle as it should be, and its counters accounted for.

\* The policies of the built-in chains.
Policy ==
    [verdict : {Accept, Drop}, map : Map, counters : Counters, from : Nat \cup {None},
     less : Int]

\* The handles, typed.
Handles ==
    [rules : UNION {[S -> Seq(Rule)] : S \in SUBSET Names},
     references : UNION {[S -> Nat] : S \in SUBSET Names},
     policy : [BuiltIns -> Policy], num : Nat, changed : BOOLEAN]

\* The counter map points into the table that was read.
Positioned(r, num) == r.map.type \in {"normal", "zeroed"} => r.map.pos \in 1..num

\* A handle as the calls of libiptc leave it: it is typed, its rules name chains
\* it has, its references count its jumps, and its maps point into the table it
\* was read from.
HandleOK(h) ==
    /\ h \in Handles /\ Ruled(h)
    /\ h.references = [c \in Chains(h) |-> Cardinality(JumpsTo(h.rules, c))]
    /\ \A r \in Carriers(h) : Positioned(r, h.num)

\* A counter the kernel knows nothing of.
Own(r) ==
    /\ r.from = None
    /\ \/ r.map.type = "set" /\ r.less = 0 - r.counters
       \/ r.map.type = "none" /\ r.less = 0

\* A rule or policy whose counter comes from those of h.
Descends(r, h) ==
    \/ r \in Carriers(h)
    \/ \E q \in Carriers(h) : r = Zeroed(q)
    \/ Own(r)

\* The handle with these parts, marked for a commit (set_changed).
Changed(rules, references, policy, num) ==
    [rules |-> rules, references |-> references, policy |-> policy, num |-> num,
     changed |-> TRUE]

\* The handle g may be made of h by an edit.
Edited(h, g) ==
    /\ g \in Handles /\ Ruled(g)
    /\ g.references = [c \in Chains(g) |-> Cardinality(JumpsTo(g.rules, c))]
    /\ g.num = h.num
    /\ \A r \in Carriers(g) : Descends(r, h)

\* The parts of a handle, typed.
LEMMA HandleParts ==
    ASSUME NEW h, HandleOK(h)
    PROVE  /\ h = [rules |-> h.rules, references |-> h.references, policy |-> h.policy,
                   num |-> h.num, changed |-> h.changed]
           /\ Chains(h) \in SUBSET Names /\ BuiltIns \subseteq Chains(h)
           /\ h.rules \in [Chains(h) -> Seq(Rule)]
           /\ h.policy \in [BuiltIns -> Policy] /\ h.num \in Nat
           /\ h.references \in [Chains(h) -> Nat]
           /\ \A d \in Chains(h) : h.references[d] = Cardinality(JumpsTo(h.rules, d))
<1>1. h \in Handles /\ Ruled(h)
      /\ h.references = [c \in Chains(h) |-> Cardinality(JumpsTo(h.rules, c))]
  BY DEF HandleOK
<1>2. h = [rules |-> h.rules, references |-> h.references, policy |-> h.policy,
           num |-> h.num, changed |-> h.changed]
      /\ h.policy \in [BuiltIns -> Policy] /\ h.num \in Nat
      /\ h.rules \in UNION {[S -> Seq(Rule)] : S \in SUBSET Names}
  BY <1>1 DEF Handles
<1>3. h.rules \in [Chains(h) -> Seq(Rule)] /\ Chains(h) \in SUBSET Names
  <2>1. PICK S \in SUBSET Names : h.rules \in [S -> Seq(Rule)]
    BY <1>2
  <2> QED
    BY <2>1 DEF Chains
<1>4. BuiltIns \subseteq Chains(h)
  BY <1>1 DEF Ruled
<1>5. ASSUME NEW d PROVE Cardinality(JumpsTo(h.rules, d)) \in Nat
  <2>1. JumpsKnown(Chains(h), h.rules, d)
    BY <1>3, JumpPlaces
  <2> QED
    BY <2>1 DEF JumpsKnown
<1> DEFINE Jumps(d) == Cardinality(JumpsTo(h.rules, d))
<1>6. h.references = [c \in Chains(h) |-> Jumps(c)] /\ \A d : Jumps(d) \in Nat
  BY <1>1, <1>5
<1> HIDE DEF Jumps
<1>7. h.references \in [Chains(h) -> Nat] /\ \A d \in Chains(h) : h.references[d] = Jumps(d)
  BY <1>6
<1> QED
  BY <1>2, <1>3, <1>4, <1>7 DEF Jumps

\* What an edit leaves is a handle again.
LEMMA EditedOK ==
    ASSUME NEW h, HandleOK(h), NEW g, Edited(h, g)
    PROVE  HandleOK(g)
<1>1. ASSUME NEW r \in Carriers(g) PROVE Positioned(r, g.num)
  <2>1. g.num = h.num /\ Descends(r, h)
    BY DEF Edited
  <2>2. CASE r \in Carriers(h)
    BY <2>1, <2>2 DEF HandleOK
  <2>3. ASSUME NEW q \in Carriers(h), r = Zeroed(q) PROVE Positioned(r, g.num)
    <3>1. Positioned(q, h.num)
      BY DEF HandleOK
    <3>2. CASE q.map.type = "normal"
      <4>1. q \in Rule \/ q \in Policy
        <5>1. h.rules \in [Chains(h) -> Seq(Rule)] /\ h.policy \in [BuiltIns -> Policy]
          BY HandleParts
        <5> QED
          BY <5>1 DEF Carriers
      <4>2. r.map.pos = q.map.pos
        BY <2>3, <3>2, <4>1 DEF Zeroed, Rule, Policy, Map
      <4> QED
        BY <2>1, <3>1, <3>2, <4>2 DEF Positioned
    <3>3. CASE q.map.type # "normal"
      BY <2>1, <2>3, <3>1, <3>3 DEF Zeroed
    <3> QED
      BY <3>2, <3>3
  <2>4. CASE Own(r)
    BY <2>4 DEF Own, Positioned
  <2> QED
    BY <2>1, <2>2, <2>3, <2>4 DEF Descends
<1> QED
  BY <1>1 DEF HandleOK, Edited

\* An edit of rules and policies.
LEMMA EditedParts ==
    ASSUME NEW h, HandleOK(h), NEW S \in SUBSET Names, BuiltIns \subseteq S,
           NEW rules \in [S -> Seq(Rule)],
           \A c \in S : \A n \in 1..Len(rules[c]) :
              RuleFits(rules[c][n], S) /\ Descends(rules[c][n], h),
           NEW references, references = [d \in S |-> Cardinality(JumpsTo(rules, d))],
           NEW policy \in [BuiltIns -> Policy], \A b \in BuiltIns : Descends(policy[b], h)
    PROVE  Edited(h, Changed(rules, references, policy, h.num))
<1> DEFINE g == Changed(rules, references, policy, h.num)
<1>1. /\ g.rules = rules /\ g.references = references /\ g.policy = policy /\ g.num = h.num
      /\ g = [rules |-> rules, references |-> references, policy |-> policy, num |-> h.num,
              changed |-> TRUE]
  BY DEF Changed
<1>2. h.num \in Nat
  BY HandleParts
<1> HIDE DEF g
<1>3. Chains(g) = S
  BY <1>1 DEF Chains
<1>4. references \in [S -> Nat]
  <2>1. \A d \in S : Cardinality(JumpsTo(rules, d)) \in Nat
    <3> TAKE d \in S
    <3>1. JumpsKnown(S, rules, d)
      BY JumpPlaces
    <3> QED
      BY <3>1 DEF JumpsKnown
  <2> QED
    BY <2>1
<1>5. g \in Handles
  <2>1. rules \in UNION {[T -> Seq(Rule)] : T \in SUBSET Names}
    OBVIOUS
  <2>2. references \in UNION {[T -> Nat] : T \in SUBSET Names}
    BY <1>4
  <2> QED
    BY <1>1, <1>2, <2>1, <2>2 DEF Handles
<1>6. Ruled(g)
  <2>1. \A b \in BuiltIns : g.policy[b].verdict \in {Accept, Drop}
    BY <1>1, <1>2 DEF Policy
  <2> QED
    BY <1>1, <1>3, <2>1 DEF Ruled
<1>7. ASSUME NEW r \in Carriers(g) PROVE Descends(r, h)
  <2>1. CASE \E c \in S : \E n \in 1..Len(rules[c]) : r = rules[c][n]
    BY <2>1
  <2>2. CASE \E b \in BuiltIns : r = policy[b]
    BY <2>2
  <2> QED
    BY <1>1, <1>3, <2>1, <2>2 DEF Carriers
<1>8. Edited(h, g)
  BY <1>1, <1>3, <1>5, <1>6, <1>7 DEF Edited
<1> QED
  BY <1>8 DEF g

\* An edit of rules alone.
LEMMA EditedRules ==
    ASSUME NEW h, HandleOK(h), NEW S \in SUBSET Names, BuiltIns \subseteq S,
           NEW rules \in [S -> Seq(Rule)],
           \A c \in S : \A n \in 1..Len(rules[c]) :
              RuleFits(rules[c][n], S) /\ Descends(rules[c][n], h),
           NEW references, references = [d \in S |-> Cardinality(JumpsTo(rules, d))]
    PROVE  Edited(h, Changed(rules, references, h.policy, h.num))
<1>1. h.policy \in [BuiltIns -> Policy]
  BY HandleParts
<1>2. \A b \in BuiltIns : Descends(h.policy[b], h)
  BY DEF Descends, Carriers
<1> QED
  BY <1>1, <1>2, EditedParts

\* The rules of a handle are fit for it and have its counters.
LEMMA OldRules ==
    ASSUME NEW h, HandleOK(h), NEW c \in Chains(h), NEW n \in 1..Len(h.rules[c])
    PROVE  /\ h.rules[c][n] \in Rule /\ h.rules[c][n] \in Carriers(h)
           /\ RuleFits(h.rules[c][n], Chains(h)) /\ Descends(h.rules[c][n], h)
<1>1. RuleFits(h.rules[c][n], Chains(h)) /\ h.rules[c] \in Seq(Rule)
  BY DEF HandleOK, Ruled
<1>2. h.rules[c][n] \in Carriers(h)
  BY DEF Carriers
<1> QED
  BY <1>1, <1>2 DEF Descends

\* What a new rule is.
LEMMA NewRules ==
    ASSUME HandleOK(handle), NEW t \in Targets, Mappable(t)
    PROVE  /\ NewRule(t) \in Rule /\ RuleFits(NewRule(t), Chains(handle))
           /\ Descends(NewRule(t), handle)
<1> DEFINE m == Mapped(t)
           r == NewRule(t)
<1>1. Chains(handle) \in SUBSET Names
  BY HandleParts
<1>2. \/ m.type = "standard" /\ m.arg = Accept
      \/ m.type = "fallthrough" /\ m.arg = None
      \/ m.type = "module" /\ m.arg \in UserChains \cup Modules
      \/ m.type = "jump" /\ m.arg \in UserChains /\ m.arg \in Chains(handle)
  <2>1. CASE t = [type |-> "standard", arg |-> Accept]
    BY <2>1 DEF Mapped
  <2>2. CASE t = [type |-> "fallthrough", arg |-> None]
    BY <2>2 DEF Mapped
  <2>3. CASE t \in [type : {"named"}, arg : UserChains \cup BuiltIns \cup Modules]
    <3>1. t.type = "named" /\ t.arg \in UserChains \cup Modules
      BY <2>3 DEF Mappable
    <3>2. t.arg \in Chains(handle) => t.arg \in UserChains
      BY <1>1 DEF Mappable, Names
    <3> QED
      BY <3>1, <3>2 DEF Mapped
  <2> QED
    BY <2>1, <2>2, <2>3 DEF Targets
<1> HIDE DEF m
<1>3. r = [type |-> m.type, arg |-> m.arg, map |-> [type |-> "set", pos |-> 1], counters |-> 0,
           from |-> None, less |-> 0]
  BY DEF NewRule, m, Unmapped
<1>4. 0 \in 0..(Modulus - 1)
  BY RulesetAssumption
<1>5. r \in Rule
  <2>1. m.type \in {"standard", "fallthrough", "module", "jump"}
        /\ m.arg \in {Accept, None} \cup UserChains \cup Modules
    BY <1>2
  <2>2. [type |-> "set", pos |-> 1] \in Map
    BY DEF Map
  <2> QED
    BY <1>3, <1>4, <2>1, <2>2 DEF Rule
<1>6. RuleFits(r, Chains(handle))
  BY <1>2, <1>3 DEF RuleFits
<1>7. Own(r)
  <2>1. r.from = None /\ r.map.type = "set" /\ r.less = 0 /\ r.counters = 0
    <3> HIDE DEF r
    <3> QED
      BY <1>3
  <2> HIDE DEF r
  <2>2. r.less = 0 - r.counters
    BY <2>1
  <2> QED
    BY <2>1, <2>2 DEF Own
<1> QED
  BY <1>5, <1>6, <1>7 DEF Descends

\* How many jumps to d go and come when rules become new.
Turned(rules, gone, come, new, d) ==
    Cardinality(JumpsTo(new, d)) =
       Cardinality(JumpsTo(rules, d))
          - Gone(rules, gone, d)
          + (IF \E r \in come : r.type = "jump" /\ r.arg = d THEN 1 ELSE 0)

\* The references an edit counts are those of the rules it makes.
LEMMA RecountedExact ==
    ASSUME HandleOK(handle), NEW gone, NEW come, NEW new,
           \A d \in Chains(handle) : Turned(handle.rules, gone, come, new, d)
    PROVE  Recounted(gone, come) = [d \in Chains(handle) |-> Cardinality(JumpsTo(new, d))]
<1>1. \A d \in Chains(handle) : handle.references[d] = Cardinality(JumpsTo(handle.rules, d))
  BY HandleParts
<1>2. Recounted(gone, come) =
        [d \in Chains(handle) |->
            handle.references[d]
              - Cardinality({at \in gone : JumpsAt(handle.rules, at, d)})
              + (IF \E r \in come : r.type = "jump" /\ r.arg = d THEN 1 ELSE 0)]
  BY DEF Recounted, Rules
<1> QED
  BY <1>1, <1>2 DEF Turned, Gone

\* What jumps at one place.
LEMMA OneGone ==
    ASSUME NEW rules, NEW c, NEW k, NEW d
    PROVE  Gone(rules, Place(c, k), d) = One(rules[c][k], d)
<1> DEFINE K == {at \in {<<c, k>>} : JumpsAt(rules, at, d)}
<1>1. JumpsAt(rules, <<c, k>>, d) <=> rules[c][k].type = "jump" /\ rules[c][k].arg = d
  BY DEF JumpsAt
<1>2. CASE JumpsAt(rules, <<c, k>>, d)
  <2>1. K = {<<c, k>>}
    BY <1>2
  <2>2. Cardinality({<<c, k>>}) = 1
    BY FS_Singleton
  <2> QED
    BY <1>1, <1>2, <2>1, <2>2 DEF One, Gone, Place
<1>3. CASE ~JumpsAt(rules, <<c, k>>, d)
  <2>1. K = {}
    BY <1>3
  <2>2. Cardinality({}) = 0
    BY FS_EmptySet
  <2> QED
    BY <1>1, <1>3, <2>1, <2>2 DEF One, Gone, Place
<1> QED
  BY <1>2, <1>3

\* TC_INSERT_ENTRY: what is inserted is a rule of its own.
LEMMA Inserted ==
    ASSUME HandleOK(handle), NEW c, NEW n \in Nat, NEW t \in Targets, InsertEntry(c, n, t)
    PROVE  Edited(handle, handle')
<1> DEFINE S == Chains(handle)
           r == NewRule(t)
           rules == handle.rules
           s == rules[c]
           q == InsertAt(s, n + 1, r)
           new == [rules EXCEPT ![c] = q]
<1>1. c \in S /\ n <= Len(s) /\ Mappable(t)
  BY DEF InsertEntry, Rules
<1>2. /\ handle = [rules |-> rules, references |-> handle.references, policy |-> handle.policy,
                   num |-> handle.num, changed |-> handle.changed]
      /\ S \in SUBSET Names /\ BuiltIns \subseteq S /\ rules \in [S -> Seq(Rule)]
  BY HandleParts
<1>3. handle' = Changed(new, Recounted({}, {r}), handle.policy, handle.num)
  <2>1. handle' = [[handle EXCEPT !.rules[c] = InsertAt(@, n + 1, r),
                                  !.references = Recounted({}, {r})] EXCEPT !.changed = TRUE]
    BY DEF InsertEntry, Edit
  <2> HIDE DEF r
  <2> QED
    BY <1>2, <2>1 DEF Changed
<1>4. r \in Rule /\ RuleFits(r, S) /\ Descends(r, handle)
  BY <1>1, NewRules
<1>5. s \in Seq(Rule) /\ Len(s) \in Nat /\ n + 1 \in 1..(Len(s) + 1)
  BY <1>1, <1>2
<1> HIDE DEF r
<1>6. /\ q \in Seq(Rule) /\ Len(q) = Len(s) + 1
      /\ \A i \in 1..n : q[i] = s[i]
      /\ q[n + 1] = r
      /\ \A i \in (n + 1)..Len(s) : q[i + 1] = s[i]
  <2>1. (n + 1) - 1 = n
    OBVIOUS
  <2> HIDE DEF s
  <2> QED
    BY <1>4, <1>5, <2>1, InsertAtProperties
<1>7. new = Put(rules, c, n + 1, r)
  BY DEF Put
<1> HIDE DEF q
<1>8. \A d : /\ new \in [S -> Seq(Rule)]
             /\ Cardinality(JumpsTo(new, d)) = Cardinality(JumpsTo(rules, d)) + One(r, d)
  <2> TAKE d
  <2> DEFINE p == n + 1
  <2>1. p \in 1..(Len(rules[c]) + 1)
    BY <1>5
  <2> HIDE DEF S, rules, p, new
  <2>2. /\ Put(rules, c, p, r) \in [S -> Seq(Rule)]
        /\ Cardinality(JumpsTo(Put(rules, c, p, r), d)) = Cardinality(JumpsTo(rules, d)) + One(r, d)
    BY <1>1, <1>2, <1>4, <2>1, InsertedJumps
  <2>3. new = Put(rules, c, p, r)
    BY <1>7 DEF p
  <2> QED
    BY <2>2, <2>3
<1>9. new[c] = q /\ \A e \in S : e # c => new[e] = rules[e]
  BY <1>1, <1>2
<1> HIDE DEF new
<1>10. ASSUME NEW e \in S, NEW i \in 1..Len(new[e])
       PROVE  RuleFits(new[e][i], S) /\ Descends(new[e][i], handle)
  <2>1. CASE e # c
    BY <1>9, <2>1, OldRules
  <2>2. CASE e = c /\ i <= n
    <3>1. i \in 1..n /\ i \in 1..Len(rules[c])
      BY <1>1, <1>5, <2>2
    <3> QED
      BY <1>1, <1>6, <1>9, <2>2, <3>1, OldRules
  <2>3. CASE e = c /\ i = n + 1
    BY <1>4, <1>6, <1>9, <2>3
  <2>4. CASE e = c /\ i > n + 1
    <3>1. i \in 1..(Len(s) + 1)
      BY <1>6, <1>9, <2>4
    <3>2. i - 1 \in (n + 1)..Len(s) /\ i - 1 \in 1..Len(rules[c]) /\ (i - 1) + 1 = i
      BY <1>5, <2>4, <3>1
    <3>3. q[(i - 1) + 1] = s[i - 1]
      BY <1>6, <3>2
    <3> QED
      BY <1>1, <1>9, <2>4, <3>2, <3>3, OldRules
  <2> QED
    BY <2>1, <2>2, <2>3, <2>4
<1>11. Recounted({}, {r}) = [d \in S |-> Cardinality(JumpsTo(new, d))]
  <2>1. ASSUME NEW d \in S
        PROVE  Turned(rules, {}, {r}, new, d)
    <3>1. Gone(rules, {}, d) = 0
      <4>1. {at \in {} : JumpsAt(rules, at, d)} = {} /\ Cardinality({}) = 0
        BY FS_EmptySet
      <4> QED
        BY <4>1 DEF Gone
    <3>2. (IF \E x \in {r} : x.type = "jump" /\ x.arg = d THEN 1 ELSE 0) = One(r, d)
      BY DEF One
    <3>3. Cardinality(JumpsTo(rules, d)) \in Nat
      <4>1. JumpsKnown(S, rules, d)
        BY <1>2, JumpPlaces
      <4> QED
        BY <4>1 DEF JumpsKnown
    <3>4. One(r, d) \in {0, 1}
      BY DEF One
    <3> HIDE DEF S, rules
    <3> QED
      BY <1>8, <3>1, <3>2, <3>3, <3>4 DEF Turned
  <2> QED
    BY <2>1, RecountedExact
<1>12. Edited(handle, Changed(new, Recounted({}, {r}), handle.policy, handle.num))
  BY <1>2, <1>8, <1>10, <1>11, EditedRules
<1> QED
  BY <1>3, <1>12

\* TC_REPLACE_ENTRY
LEMMA Replaced ==
    ASSUME HandleOK(handle), NEW c, NEW n \in Nat, NEW t \in Targets, ReplaceEntry(c, n, t)
    PROVE  Edited(handle, handle')
<1> DEFINE S == Chains(handle)
           r == NewRule(t)
           rules == handle.rules
           s == rules[c]
           k == n + 1
           new == Swap(rules, c, k, r)
           gone == Place(c, k)
<1>1. c \in S /\ n < Len(s) /\ Mappable(t)
  BY DEF ReplaceEntry, Rules
<1>2. /\ handle = [rules |-> rules, references |-> handle.references, policy |-> handle.policy,
                   num |-> handle.num, changed |-> handle.changed]
      /\ S \in SUBSET Names /\ BuiltIns \subseteq S /\ rules \in [S -> Seq(Rule)]
  BY HandleParts
<1>3. handle' = Changed(new, Recounted(gone, {r}), handle.policy, handle.num)
  <2>1. handle' = [[handle EXCEPT !.rules[c][n + 1] = r,
                                  !.references = Recounted(gone, {r})] EXCEPT !.changed = TRUE]
    BY DEF ReplaceEntry, Edit, Place
  <2> HIDE DEF r, gone
  <2> QED
    BY <1>2, <2>1 DEF Changed, Swap
<1>4. r \in Rule /\ RuleFits(r, S) /\ Descends(r, handle)
  BY <1>1, NewRules
<1>5. s \in Seq(Rule) /\ Len(s) \in Nat /\ k \in 1..Len(s)
  BY <1>1, <1>2
<1> HIDE DEF r
<1>6. \A d : /\ new \in [S -> Seq(Rule)]
             /\ Cardinality(JumpsTo(rules, d)) \in Nat
             /\ Cardinality(JumpsTo(rules, d)) >= One(rules[c][k], d)
             /\ Cardinality(JumpsTo(new, d)) =
                   Cardinality(JumpsTo(rules, d)) - One(rules[c][k], d) + One(r, d)
  <2> TAKE d
  <2>1. k \in 1..Len(rules[c])
    BY <1>5
  <2> HIDE DEF S, rules, k
  <2> QED
    BY <1>1, <1>2, <1>4, <2>1, ReplacedJumps
<1>7. /\ new \in [S -> Seq(Rule)] /\ \A e \in S : Len(new[e]) = Len(rules[e])
      /\ new[c][k] = r
      /\ \A e \in S, i \in Nat : <<e, i>> # <<c, k>> /\ i \in 1..Len(rules[e]) => new[e][i] = rules[e][i]
  <2>1. new \in [S -> Seq(Rule)]
    BY <1>6
  <2>2. new[c] = [s EXCEPT ![k] = r] /\ \A e \in S : e # c => new[e] = rules[e]
    BY <1>1, <1>2 DEF Swap
  <2> HIDE DEF new, k
  <2> QED
    BY <1>1, <1>2, <1>5, <2>1, <2>2
<1> HIDE DEF new
<1>8. ASSUME NEW e \in S, NEW i \in 1..Len(new[e])
      PROVE  RuleFits(new[e][i], S) /\ Descends(new[e][i], handle)
  <2>1. i \in Nat /\ i \in 1..Len(rules[e])
    BY <1>2, <1>7
  <2>2. CASE <<e, i>> = <<c, k>>
    BY <1>4, <1>7, <2>2
  <2>3. CASE <<e, i>> # <<c, k>>
    BY <1>7, <2>1, <2>3, OldRules
  <2> QED
    BY <2>2, <2>3
<1>9. Recounted(gone, {r}) = [d \in S |-> Cardinality(JumpsTo(new, d))]
  <2>1. ASSUME NEW d \in S
        PROVE  Turned(rules, gone, {r}, new, d)
    <3>1. Gone(rules, gone, d) = One(rules[c][k], d)
      BY OneGone
    <3>2. (IF \E x \in {r} : x.type = "jump" /\ x.arg = d THEN 1 ELSE 0) = One(r, d)
      BY DEF One
    <3>3. One(r, d) \in {0, 1} /\ One(rules[c][k], d) \in {0, 1}
      BY DEF One
    <3> HIDE DEF S, rules, gone, k
    <3> QED
      BY <1>6, <3>1, <3>2, <3>3 DEF Turned
  <2> QED
    BY <2>1, RecountedExact
<1>10. Edited(handle, Changed(new, Recounted(gone, {r}), handle.policy, handle.num))
  BY <1>2, <1>7, <1>8, <1>9, EditedRules
<1> QED
  BY <1>3, <1>10

\* iptcc_delete_rule
LEMMA Taken ==
    ASSUME HandleOK(handle), NEW c \in Chains(handle), NEW k \in 1..Len(handle.rules[c]),
           Edit(Without(c, k))
    PROVE  Edited(handle, handle')
<1> DEFINE S == Chains(handle)
           rules == handle.rules
           s == rules[c]
           q == RemoveAt(s, k)
           new == Cut(rules, c, k)
           gone == Place(c, k)
<1>2. /\ handle = [rules |-> rules, references |-> handle.references, policy |-> handle.policy,
                   num |-> handle.num, changed |-> handle.changed]
      /\ S \in SUBSET Names /\ BuiltIns \subseteq S /\ rules \in [S -> Seq(Rule)]
  BY HandleParts
<1>3. handle' = Changed(new, Recounted(gone, {}), handle.policy, handle.num)
  <2>1. handle' = [[handle EXCEPT !.rules[c] = RemoveAt(@, k),
                                  !.references = Recounted(gone, {})] EXCEPT !.changed = TRUE]
    BY DEF Edit, Without, Place
  <2> HIDE DEF gone
  <2> QED
    BY <1>2, <2>1 DEF Changed, Cut
<1>5. s \in Seq(Rule) /\ Len(s) \in Nat /\ k \in 1..Len(s)
  BY <1>2
<1>6. \A d : /\ new \in [S -> Seq(Rule)]
             /\ Cardinality(JumpsTo(new, d)) \in Nat
             /\ Cardinality(JumpsTo(rules, d)) =
                   Cardinality(JumpsTo(new, d)) + One(rules[c][k], d)
  <2> TAKE d
  <2>1. k \in 1..Len(rules[c]) /\ c \in S
    BY <1>5
  <2> HIDE DEF S, rules
  <2> QED
    BY <1>2, <2>1, RemovedJumps
<1>7. /\ Len(q) = Len(s) - 1
      /\ \A i \in 1..(k - 1) : q[i] = s[i]
      /\ \A i \in k..(Len(s) - 1) : q[i] = s[i + 1]
  <2> HIDE DEF s
  <2> QED
    BY <1>5, RemoveAtProperties
<1>8. new[c] = q /\ \A e \in S : e # c => new[e] = rules[e]
  BY <1>2 DEF Cut
<1> HIDE DEF q
<1> HIDE DEF new
<1>9. ASSUME NEW e \in S, NEW i \in 1..Len(new[e])
      PROVE  RuleFits(new[e][i], S) /\ Descends(new[e][i], handle)
  <2>1. CASE e # c
    BY <1>8, <2>1, OldRules
  <2>2. CASE e = c /\ i < k
    <3>1. i \in 1..(k - 1) /\ i \in 1..Len(rules[c])
      BY <1>5, <1>7, <1>8, <2>2
    <3> QED
      BY <1>7, <1>8, <2>2, <3>1, OldRules
  <2>3. CASE e = c /\ ~(i < k)
    <3>1. i \in k..(Len(s) - 1) /\ i + 1 \in 1..Len(rules[c])
      BY <1>5, <1>7, <1>8, <2>3
    <3> QED
      BY <1>7, <1>8, <2>3, <3>1, OldRules
  <2> QED
    BY <2>1, <2>2, <2>3
<1>10. Recounted(gone, {}) = [d \in S |-> Cardinality(JumpsTo(new, d))]
  <2>1. ASSUME NEW d \in S
        PROVE  Turned(rules, gone, {}, new, d)
    <3>1. Gone(rules, gone, d) = One(rules[c][k], d)
      BY OneGone
    <3>2. (IF \E x \in {} : x.type = "jump" /\ x.arg = d THEN 1 ELSE 0) = 0
      OBVIOUS
    <3>3. One(rules[c][k], d) \in {0, 1}
      BY DEF One
    <3> HIDE DEF S, rules, gone
    <3> QED
      BY <1>6, <3>1, <3>2, <3>3 DEF Turned
  <2> QED
    BY <2>1, RecountedExact
<1>11. Edited(handle, Changed(new, Recounted(gone, {}), handle.policy, handle.num))
  BY <1>2, <1>6, <1>9, <1>10, EditedRules
<1> QED
  BY <1>3, <1>11

\* TC_DELETE_ENTRY that finds no rule.
LEMMA NothingDeleted ==
    ASSUME HandleOK(handle), Edit(handle)
    PROVE  Edited(handle, handle')
<1> DEFINE S == Chains(handle)
           rules == handle.rules
<1>1. /\ handle = [rules |-> rules, references |-> handle.references, policy |-> handle.policy,
                   num |-> handle.num, changed |-> handle.changed]
      /\ S \in SUBSET Names /\ BuiltIns \subseteq S /\ rules \in [S -> Seq(Rule)]
  BY HandleParts
<1>2. handle' = Changed(rules, handle.references, handle.policy, handle.num)
  BY <1>1 DEF Edit, Changed
<1>3. handle.references = [d \in S |-> Cardinality(JumpsTo(rules, d))]
  BY DEF HandleOK
<1>4. \A e \in S : \A i \in 1..Len(rules[e]) :
          RuleFits(rules[e][i], S) /\ Descends(rules[e][i], handle)
  BY OldRules
<1> QED
  BY <1>1, <1>2, <1>3, <1>4, EditedRules

\* TC_FLUSH_ENTRIES
LEMMA Emptied ==
    ASSUME HandleOK(handle), NEW c, FlushEntries(c)
    PROVE  Edited(handle, handle')
<1> DEFINE S == Chains(handle)
           rules == handle.rules
           gone == Within(rules, c)
           new == Bare(rules, c)
<1>1. c \in S /\ Edit(Flushed(c))
  BY DEF FlushEntries
<1>2. /\ handle = [rules |-> rules, references |-> handle.references, policy |-> handle.policy,
                   num |-> handle.num, changed |-> handle.changed]
      /\ S \in SUBSET Names /\ BuiltIns \subseteq S /\ rules \in [S -> Seq(Rule)]
  BY HandleParts
<1>3. handle' = Changed(new, Recounted(gone, {}), handle.policy, handle.num)
  <2>1. handle' = [[handle EXCEPT !.rules[c] = <<>>,
                                  !.references = Recounted(gone, {})] EXCEPT !.changed = TRUE]
    BY <1>1 DEF Edit, Flushed, Rules, Within
  <2> HIDE DEF gone
  <2> QED
    BY <1>2, <2>1 DEF Changed, Bare
<1>4. \A d : /\ new \in [S -> Seq(Rule)]
             /\ Cardinality(JumpsTo(new, d)) \in Nat
             /\ Cardinality(JumpsTo(new, d)) =
                   Cardinality(JumpsTo(rules, d)) - Gone(rules, gone, d)
  <2> TAKE d
  <2> HIDE DEF S, rules
  <2> QED
    BY <1>1, <1>2, FlushedJumps
<1>5. new[c] = <<>> /\ \A e \in S : e # c => new[e] = rules[e]
  BY <1>1, <1>2 DEF Bare
<1> HIDE DEF new
<1>6. ASSUME NEW e \in S, NEW i \in 1..Len(new[e])
      PROVE  RuleFits(new[e][i], S) /\ Descends(new[e][i], handle)
  <2>1. CASE e # c
    BY <1>5, <2>1, OldRules
  <2>2. CASE e = c
    BY <1>5, <2>2
  <2> QED
    BY <2>1, <2>2
<1>7. Recounted(gone, {}) = [d \in S |-> Cardinality(JumpsTo(new, d))]
  <2>1. ASSUME NEW d \in S
        PROVE  Turned(rules, gone, {}, new, d)
    <3> DEFINE x == Cardinality(JumpsTo(new, d))
    <3>1. (IF \E r \in {} : r.type = "jump" /\ r.arg = d THEN 1 ELSE 0) = 0
      OBVIOUS
    <3>2. x \in Nat
      BY <1>4
    <3>3. x = Cardinality(JumpsTo(rules, d)) - Gone(rules, gone, d)
      BY <1>4
    <3>4. x = x + 0
      <4> HIDE DEF x
      <4> QED
        BY <3>2
    <3> HIDE DEF S, rules, gone
    <3> QED
      BY <3>1, <3>3, <3>4 DEF Turned
  <2> QED
    BY <2>1, RecountedExact
<1>8. Edited(handle, Changed(new, Recounted(gone, {}), handle.policy, handle.num))
  BY <1>2, <1>4, <1>6, <1>7, EditedRules
<1> QED
  BY <1>3, <1>8

\* A chain no rule jumps to.
LEMMA NoJumps ==
    ASSUME NEW h, HandleOK(h), NEW d,
           \/ d \notin Chains(h)
           \/ d \in Chains(h) /\ h.references[d] = 0
    PROVE  /\ Cardinality(JumpsTo(h.rules, d)) = 0
           /\ \A c \in Chains(h) : \A n \in 1..Len(h.rules[c]) :
                 ~(h.rules[c][n].type = "jump" /\ h.rules[c][n].arg = d)
<1> DEFINE S == Chains(h)
           rules == h.rules
<1>1. /\ S \in SUBSET Names /\ rules \in [S -> Seq(Rule)]
      /\ d \in S => h.references[d] = Cardinality(JumpsTo(rules, d))
  BY HandleParts
<1>2. \A c \in S : \A n \in 1..Len(rules[c]) : RuleFits(rules[c][n], S)
  BY OldRules
<1>3. JumpsKnown(S, rules, d)
  <2> HIDE DEF S, rules
  <2> QED
    BY <1>1, JumpPlaces
<1> HIDE DEF S, rules
<1>4. CASE d \notin S
  <2>1. \A c \in S : \A n \in 1..Len(rules[c]) :
            ~(rules[c][n].type = "jump" /\ rules[c][n].arg = d)
    BY <1>2, <1>4 DEF RuleFits
  <2>2. JumpsTo(rules, d) = {}
    <3>1. ASSUME NEW e, NEW n, <<e, n>> \in JumpsTo(rules, d) PROVE FALSE
      <4>1. e \in S /\ n \in 1..Len(rules[e]) /\ rules[e][n].type = "jump" /\ rules[e][n].arg = d
        BY <1>3, <3>1 DEF JumpsKnown
      <4> QED
        BY <2>1, <4>1
    <3>2. \A at \in JumpsTo(rules, d) : at = <<at[1], at[2]>>
      BY <1>3 DEF JumpsKnown
    <3> QED
      BY <3>1, <3>2
  <2> QED
    BY <2>1, <2>2, FS_EmptySet DEF S, rules
<1>5. CASE d \in S /\ h.references[d] = 0
  <2>1. IsFiniteSet(JumpsTo(rules, d)) /\ Cardinality(JumpsTo(rules, d)) = 0
    BY <1>1, <1>3, <1>5 DEF JumpsKnown
  <2>2. JumpsTo(rules, d) = {}
    BY <2>1, FS_EmptySet
  <2>3. \A c \in S : \A n \in 1..Len(rules[c]) :
            ~(rules[c][n].type = "jump" /\ rules[c][n].arg = d)
    BY <1>3, <2>2 DEF JumpsKnown
  <2> QED
    BY <2>1, <2>3 DEF S, rules
<1> QED
  BY <1>4, <1>5 DEF S

\* TC_CREATE_CHAIN
LEMMA Created ==
    ASSUME HandleOK(handle), NEW c \in Names, CreateChain(c)
    PROVE  Edited(handle, handle')
<1> DEFINE S == Chains(handle)
           T == S \cup {c}
           rules == handle.rules
           refs == handle.references
           new == [d \in T |-> IF d = c THEN <<>> ELSE rules[d]]
           news == [d \in T |-> IF d = c THEN 0 ELSE refs[d]]
<1>1. c \notin S
  BY DEF CreateChain
<1>2. /\ handle = [rules |-> rules, references |-> refs, policy |-> handle.policy,
                   num |-> handle.num, changed |-> handle.changed]
      /\ S \in SUBSET Names /\ BuiltIns \subseteq S /\ rules \in [S -> Seq(Rule)]
      /\ \A d \in S : refs[d] = Cardinality(JumpsTo(rules, d))
  BY HandleParts
<1>3. handle' = Changed(new, news, handle.policy, handle.num)
  <2>1. handle' = [[handle EXCEPT !.rules = new, !.references = news] EXCEPT !.changed = TRUE]
    BY DEF CreateChain, Edit
  <2> HIDE DEF new, news
  <2> QED
    BY <1>2, <2>1 DEF Changed
<1>4. T \in SUBSET Names /\ BuiltIns \subseteq T /\ new \in [T -> Seq(Rule)]
  BY <1>2
<1>5. new[c] = <<>> /\ \A d \in S : new[d] = rules[d]
  BY <1>1
<1> HIDE DEF new
<1>6. \A d : JumpsTo(new, d) = JumpsTo(rules, d)
  <2> TAKE d
  <2>1. Alike(S, rules, T, new)
    BY <1>5 DEF Alike
  <2> HIDE DEF S, T, rules
  <2> QED
    BY <1>2, <1>4, <2>1, SameJumps
<1>7. news = [d \in T |-> Cardinality(JumpsTo(new, d))]
  <2>1. Cardinality(JumpsTo(rules, c)) = 0
    BY <1>1, NoJumps
  <2>2. \A d \in T : (IF d = c THEN 0 ELSE refs[d]) = Cardinality(JumpsTo(new, d))
    BY <1>2, <1>6, <2>1
  <2> QED
    BY <2>2
<1>8. ASSUME NEW e \in T, NEW i \in 1..Len(new[e])
      PROVE  RuleFits(new[e][i], T) /\ Descends(new[e][i], handle)
  <2>1. CASE e = c
    BY <1>5, <2>1
  <2>2. CASE e # c
    <3>1. e \in S /\ new[e][i] = rules[e][i] /\ i \in 1..Len(rules[e])
      BY <1>5, <2>2
    <3>2. RuleFits(rules[e][i], S) /\ Descends(rules[e][i], handle)
      BY <3>1, OldRules
    <3> QED
      BY <3>1, <3>2 DEF RuleFits
  <2> QED
    BY <2>1, <2>2
<1> HIDE DEF T, news
<1>9. Edited(handle, Changed(new, news, handle.policy, handle.num))
  BY <1>4, <1>7, <1>8, EditedRules
<1> QED
  BY <1>3, <1>9

\* TC_DELETE_CHAIN
LEMMA ChainGone ==
    ASSUME HandleOK(handle), NEW c, DeleteChain(c)
    PROVE  Edited(handle, handle')
<1> DEFINE S == Chains(handle)
           T == S \ {c}
           rules == handle.rules
           refs == handle.references
           new == [d \in T |-> rules[d]]
           news == [d \in T |-> refs[d]]
<1>1. c \in S /\ c \notin BuiltIns /\ refs[c] = 0 /\ rules[c] = <<>>
  BY DEF DeleteChain, Rules
<1>2. /\ handle = [rules |-> rules, references |-> refs, policy |-> handle.policy,
                   num |-> handle.num, changed |-> handle.changed]
      /\ S \in SUBSET Names /\ BuiltIns \subseteq S /\ rules \in [S -> Seq(Rule)]
      /\ \A d \in S : refs[d] = Cardinality(JumpsTo(rules, d))
  BY HandleParts
<1>3. handle' = Changed(new, news, handle.policy, handle.num)
  <2>1. handle' = [[handle EXCEPT !.rules = Restrict(@, T), !.references = Restrict(@, T)]
                       EXCEPT !.changed = TRUE]
    BY DEF DeleteChain, Edit
  <2>2. Restrict(rules, T) = new /\ Restrict(refs, T) = news
    BY DEF Restrict
  <2> HIDE DEF new, news, T
  <2> QED
    BY <1>2, <2>1, <2>2 DEF Changed
<1>4. T \in SUBSET Names /\ BuiltIns \subseteq T /\ new \in [T -> Seq(Rule)]
  BY <1>1, <1>2
<1>5. \A d \in T : new[d] = rules[d]
  OBVIOUS
<1> HIDE DEF new
<1>6. \A d : JumpsTo(new, d) = JumpsTo(rules, d)
  <2> TAKE d
  <2>1. Alike(S, rules, T, new)
    BY <1>1, <1>5 DEF Alike
  <2> HIDE DEF S, T, rules
  <2> QED
    BY <1>2, <1>4, <2>1, SameJumps
<1>7. news = [d \in T |-> Cardinality(JumpsTo(new, d))]
  BY <1>2, <1>6
<1>8. ASSUME NEW e \in T, NEW i \in 1..Len(new[e])
      PROVE  RuleFits(new[e][i], T) /\ Descends(new[e][i], handle)
  <2>1. e \in S /\ new[e][i] = rules[e][i] /\ i \in 1..Len(rules[e])
    BY <1>5
  <2>2. RuleFits(rules[e][i], S) /\ Descends(rules[e][i], handle)
    BY <2>1, OldRules
  <2>3. ~(rules[e][i].type = "jump" /\ rules[e][i].arg = c)
    BY <1>1, <2>1, NoJumps
  <2> QED
    BY <2>1, <2>2, <2>3 DEF RuleFits
<1> HIDE DEF T, news
<1>9. Edited(handle, Changed(new, news, handle.policy, handle.num))
  BY <1>4, <1>7, <1>8, EditedRules
<1> QED
  BY <1>3, <1>9

\* An edit that changes no more of rules than their counters.
LEMMA Recounting ==
    ASSUME NEW h, HandleOK(h), NEW new,
           new \in [Chains(h) -> Seq(Rule)],
           \A c \in Chains(h) :
              /\ Len(new[c]) = Len(h.rules[c])
              /\ \A n \in 1..Len(h.rules[c]) :
                    /\ new[c][n].type = h.rules[c][n].type /\ new[c][n].arg = h.rules[c][n].arg
                    /\ Descends(new[c][n], h),
           NEW policy \in [BuiltIns -> Policy], \A b \in BuiltIns : Descends(policy[b], h)
    PROVE  Edited(h, Changed(new, h.references, policy, h.num))
<1> DEFINE S == Chains(h)
           rules == h.rules
<1>1. /\ S \in SUBSET Names /\ BuiltIns \subseteq S /\ rules \in [S -> Seq(Rule)]
      /\ h.references = [d \in S |-> Cardinality(JumpsTo(rules, d))]
  BY HandleParts DEF HandleOK
<1>2. \A d : JumpsTo(new, d) = JumpsTo(rules, d)
  <2> TAKE d
  <2>1. Alike(S, rules, S, new)
    BY DEF Alike
  <2> HIDE DEF S, rules
  <2> QED
    BY <1>1, <2>1, SameJumps DEF S
<1>3. h.references = [d \in S |-> Cardinality(JumpsTo(new, d))]
  BY <1>1, <1>2
<1>4. ASSUME NEW e \in S, NEW i \in 1..Len(new[e])
      PROVE  RuleFits(new[e][i], S) /\ Descends(new[e][i], h)
  <2>1. i \in 1..Len(rules[e]) /\ Descends(new[e][i], h)
        /\ new[e][i].type = rules[e][i].type /\ new[e][i].arg = rules[e][i].arg
    OBVIOUS
  <2>2. RuleFits(rules[e][i], S)
    BY <2>1, OldRules
  <2> QED
    BY <2>1, <2>2 DEF RuleFits
<1> HIDE DEF S, rules
<1>5. new \in [S -> Seq(Rule)]
  BY DEF S
<1> QED
  BY <1>1, <1>3, <1>4, <1>5, EditedParts

\* What becomes of a rule and of a policy that is zeroed.
LEMMA ZeroedParts ==
    ASSUME NEW h, NEW r \in Carriers(h)
    PROVE  /\ r \in Rule => /\ Zeroed(r) \in Rule
                            /\ Zeroed(r).type = r.type /\ Zeroed(r).arg = r.arg
           /\ r \in Policy => Zeroed(r) \in Policy
           /\ Descends(Zeroed(r), h)
<1>1. Counters \subseteq Int
  BY DEF Counters
<1>2. ASSUME r \in Rule
      PROVE  Zeroed(r) \in Rule /\ Zeroed(r).type = r.type /\ Zeroed(r).arg = r.arg
  <2>1. r.counters \in Int
    BY <1>2 DEF Rule
  <2>2. CASE r.map.type = "normal"
    BY <1>2, <2>1, <2>2 DEF Zeroed, Rule, Map
  <2>3. CASE r.map.type # "normal"
    BY <1>2, <2>3 DEF Zeroed
  <2> QED
    BY <2>2, <2>3
<1>3. ASSUME r \in Policy PROVE Zeroed(r) \in Policy
  <2>1. r.counters \in Int
    BY <1>1, <1>3 DEF Policy
  <2>2. CASE r.map.type = "normal"
    BY <1>3, <2>1, <2>2 DEF Zeroed, Policy, Map
  <2>3. CASE r.map.type # "normal"
    BY <1>3, <2>3 DEF Zeroed
  <2> QED
    BY <2>2, <2>3
<1>4. Descends(Zeroed(r), h)
  BY DEF Descends
<1> QED
  BY <1>2, <1>3, <1>4

\* What becomes of a rule whose counter is set.
LEMMA CountingParts ==
    ASSUME NEW h
    PROVE  /\ \A r \in Rule : /\ Counting("set", r, Given) \in Rule
                              /\ Counting("set", r, Given).type = r.type
                              /\ Counting("set", r, Given).arg = r.arg
                              /\ Descends(Counting("set", r, Given), h)
           /\ \A p \in Policy : /\ Counting("set", p, Given) \in Policy
                                /\ Descends(Counting("set", p, Given), h)
                                /\ Counting("none", p, p.counters) \in Policy
                                /\ Descends(Counting("none", p, p.counters), h)
<1>1. Given \in Counters /\ Given \in Int /\ -Given \in Int /\ -Given = 0 - Given
  BY RulesetAssumption DEF Counters
<1> DEFINE minus == -Given
<1>2. \A r : Counting("set", r, Given) =
                [r EXCEPT !.map.type = "set", !.counters = Given, !.from = None, !.less = minus]
  BY DEF Counting
<1>3. \A r : Counting("none", r, r.counters) =
                [r EXCEPT !.map.type = "none", !.counters = r.counters, !.from = None, !.less = 0]
  BY DEF Counting
<1>4. minus \in Int /\ minus = 0 - Given
  BY <1>1
<1> HIDE DEF minus
<1>5. ASSUME NEW r \in Rule
      PROVE  /\ Counting("set", r, Given) \in Rule
             /\ Counting("set", r, Given).type = r.type
             /\ Counting("set", r, Given).arg = r.arg
             /\ Descends(Counting("set", r, Given), h)
  <2> DEFINE q == [r EXCEPT !.map.type = "set", !.counters = Given, !.from = None, !.less = minus]
  <2>1. q \in Rule /\ q.type = r.type /\ q.arg = r.arg
    BY <1>1, <1>4 DEF Rule, Map, Counters
  <2>2. q.from = None /\ q.map.type = "set" /\ q.less = minus /\ q.counters = Given
    BY <1>1, <1>4 DEF Rule, Map, Counters
  <2> HIDE DEF q
  <2>3. Own(q)
    BY <1>4, <2>2 DEF Own
  <2>4. Counting("set", r, Given) = q
    BY <1>2 DEF q
  <2> QED
    BY <2>1, <2>3, <2>4 DEF Descends
<1>6. ASSUME NEW r \in Policy
      PROVE  Counting("set", r, Given) \in Policy /\ Descends(Counting("set", r, Given), h)
  <2> DEFINE q == [r EXCEPT !.map.type = "set", !.counters = Given, !.from = None, !.less = minus]
  <2>1. q \in Policy
    BY <1>1, <1>4 DEF Policy, Map
  <2>2. q.from = None /\ q.map.type = "set" /\ q.less = minus /\ q.counters = Given
    BY <1>1, <1>4 DEF Policy, Map
  <2> HIDE DEF q
  <2>3. Own(q)
    BY <1>4, <2>2 DEF Own
  <2>4. Counting("set", r, Given) = q
    BY <1>2 DEF q
  <2> QED
    BY <2>1, <2>3, <2>4 DEF Descends
<1>7. ASSUME NEW r \in Policy
      PROVE  Counting("none", r, r.counters) \in Policy
             /\ Descends(Counting("none", r, r.counters), h)
  <2> DEFINE x == r.counters
             y == 0
             q == [r EXCEPT !.map.type = "none", !.counters = x, !.from = None, !.less = y]
  <2>0. x \in Counters /\ y \in Int
    BY DEF Policy
  <2> HIDE DEF x, y
  <2>1. q \in Policy
    BY <2>0 DEF Policy, Map
  <2>2. q.from = None /\ q.map.type = "none" /\ q.less = 0
    BY DEF Policy, Map, y
  <2> HIDE DEF q
  <2>3. Own(q)
    BY <2>2 DEF Own
  <2>4. Counting("none", r, r.counters) = q
    BY <1>3 DEF q, x, y
  <2> QED
    BY <2>1, <2>3, <2>4 DEF Descends
<1> QED
  BY <1>5, <1>6, <1>7

\* TC_ZERO_ENTRIES
LEMMA AllZeroed ==
    ASSUME HandleOK(handle), NEW c, ZeroEntries(c)
    PROVE  Edited(handle, handle')
<1> DEFINE S == Chains(handle)
           rules == handle.rules
           policy == handle.policy
           q == [n \in DOMAIN rules[c] |-> Zeroed(rules[c][n])]
           new == [rules EXCEPT ![c] = q]
           newpolicy == [b \in BuiltIns |-> IF b = c THEN Zeroed(policy[b]) ELSE policy[b]]
<1>1. c \in S
  BY DEF ZeroEntries
<1>2. /\ handle = [rules |-> rules, references |-> handle.references, policy |-> policy,
                   num |-> handle.num, changed |-> handle.changed]
      /\ rules \in [S -> Seq(Rule)] /\ policy \in [BuiltIns -> Policy]
  BY HandleParts
<1>3. handle' = Changed(new, handle.references, newpolicy, handle.num)
  <2>1. handle' = [[handle EXCEPT
            !.rules[c] = [n \in DOMAIN @ |-> Zeroed(@[n])],
            !.policy = [b \in BuiltIns |-> IF b = c THEN Zeroed(@[b]) ELSE @[b]]]
               EXCEPT !.changed = TRUE]
    BY DEF ZeroEntries, Edit
  <2>2. handle' = [[handle EXCEPT !.rules[c] = q, !.policy = newpolicy] EXCEPT !.changed = TRUE]
    BY <2>1
  <2> HIDE DEF q, newpolicy
  <2> QED
    BY <1>2, <2>2 DEF Changed
<1>4. rules[c] \in Seq(Rule) /\ DOMAIN rules[c] = 1..Len(rules[c]) /\ Len(rules[c]) \in Nat
  BY <1>1, <1>2
<1>5. ASSUME NEW n \in 1..Len(rules[c])
      PROVE  /\ q[n] \in Rule /\ Descends(q[n], handle)
             /\ q[n].type = rules[c][n].type /\ q[n].arg = rules[c][n].arg
  <2>1. rules[c][n] \in Carriers(handle) /\ rules[c][n] \in Rule
    BY <1>1, OldRules
  <2>2. q[n] = Zeroed(rules[c][n])
    BY <1>4
  <2> QED
    BY <2>1, <2>2, ZeroedParts
<1>6. q \in Seq(Rule) /\ Len(q) = Len(rules[c])
  <2>1. q \in [1..Len(rules[c]) -> Rule]
    <3>1. q = [n \in 1..Len(rules[c]) |-> q[n]]
      BY <1>4
    <3> HIDE DEF q
    <3> QED
      BY <1>5, <3>1
  <2> HIDE DEF q
  <2> QED
    BY <1>4, <2>1
<1> HIDE DEF q
<1>7. /\ new \in [S -> Seq(Rule)] /\ new[c] = q
      /\ \A e \in S : e # c => new[e] = rules[e]
  BY <1>1, <1>2, <1>6
<1> HIDE DEF new
<1>8. ASSUME NEW e \in S
      PROVE  /\ Len(new[e]) = Len(rules[e])
             /\ \A n \in 1..Len(rules[e]) :
                   /\ new[e][n].type = rules[e][n].type /\ new[e][n].arg = rules[e][n].arg
                   /\ Descends(new[e][n], handle)
  <2>1. CASE e = c
    BY <1>5, <1>6, <1>7, <2>1
  <2>2. CASE e # c
    BY <1>7, <2>2, OldRules
  <2> QED
    BY <2>1, <2>2
<1>9. newpolicy \in [BuiltIns -> Policy] /\ \A b \in BuiltIns : Descends(newpolicy[b], handle)
  <2>1. ASSUME NEW b \in BuiltIns
        PROVE  newpolicy[b] \in Policy /\ Descends(newpolicy[b], handle)
    <3>1. policy[b] \in Policy /\ policy[b] \in Carriers(handle)
      BY <1>2 DEF Carriers
    <3>2. Zeroed(policy[b]) \in Policy /\ Descends(Zeroed(policy[b]), handle)
      BY <3>1, ZeroedParts
    <3>3. Descends(policy[b], handle)
      BY <3>1 DEF Descends
    <3> QED
      BY <3>1, <3>2, <3>3
  <2>2. newpolicy = [b \in BuiltIns |-> newpolicy[b]]
    OBVIOUS
  <2> HIDE DEF newpolicy
  <2> QED
    BY <2>1, <2>2
<1> HIDE DEF newpolicy
<1>10. Edited(handle, Changed(new, handle.references, newpolicy, handle.num))
  BY <1>7, <1>8, <1>9, Recounting
<1> QED
  BY <1>3, <1>10

\* An edit that changes the counter of one rule.
LEMMA OneRecounted ==
    ASSUME HandleOK(handle), NEW c \in Chains(handle), NEW k \in DOMAIN handle.rules[c],
           NEW r \in Rule, Descends(r, handle),
           r.type = handle.rules[c][k].type, r.arg = handle.rules[c][k].arg,
           handle' = [[handle EXCEPT !.rules[c][k] = r] EXCEPT !.changed = TRUE]
    PROVE  Edited(handle, handle')
<1> DEFINE S == Chains(handle)
           rules == handle.rules
           policy == handle.policy
           q == [rules[c] EXCEPT ![k] = r]
           new == [rules EXCEPT ![c] = q]
<1>1. /\ handle = [rules |-> rules, references |-> handle.references, policy |-> policy,
                   num |-> handle.num, changed |-> handle.changed]
      /\ rules \in [S -> Seq(Rule)] /\ policy \in [BuiltIns -> Policy]
  BY HandleParts
<1>2. handle' = Changed(new, handle.references, policy, handle.num)
  BY <1>1 DEF Changed
<1>3. q \in Seq(Rule) /\ Len(q) = Len(rules[c]) /\ q[k] = r
      /\ \A n \in 1..Len(rules[c]) : n # k => q[n] = rules[c][n]
  BY <1>1
<1> HIDE DEF q
<1>4. /\ new \in [S -> Seq(Rule)] /\ new[c] = q
      /\ \A e \in S : e # c => new[e] = rules[e]
  BY <1>1, <1>3
<1> HIDE DEF new
<1>5. ASSUME NEW e \in S
      PROVE  /\ Len(new[e]) = Len(rules[e])
             /\ \A n \in 1..Len(rules[e]) :
                   /\ new[e][n].type = rules[e][n].type /\ new[e][n].arg = rules[e][n].arg
                   /\ Descends(new[e][n], handle)
  <2>1. CASE e = c
    <3>1. Len(new[e]) = Len(rules[e])
      BY <1>3, <1>4, <2>1
    <3>2. ASSUME NEW n \in 1..Len(rules[e])
          PROVE  /\ new[e][n].type = rules[e][n].type /\ new[e][n].arg = rules[e][n].arg
                 /\ Descends(new[e][n], handle)
      <4>1. CASE n = k
        BY <1>3, <1>4, <2>1, <4>1
      <4>2. CASE n # k
        BY <1>3, <1>4, <2>1, <4>2, OldRules
      <4> QED
        BY <4>1, <4>2
    <3> QED
      BY <3>1, <3>2
  <2>2. CASE e # c
    BY <1>4, <2>2, OldRules
  <2> QED
    BY <2>1, <2>2
<1>6. \A b \in BuiltIns : Descends(policy[b], handle)
  BY DEF Descends, Carriers
<1>7. Edited(handle, Changed(new, handle.references, policy, handle.num))
  BY <1>1, <1>4, <1>5, <1>6, Recounting
<1> QED
  BY <1>2, <1>7

\* TC_SET_POLICY
LEMMA PolicySet ==
    ASSUME HandleOK(handle), NEW b \in BuiltIns, NEW verdict \in {Accept, Drop},
           SetPolicy(b, verdict)
    PROVE  Edited(handle, handle')
<1> DEFINE S == Chains(handle)
           rules == handle.rules
           policy == handle.policy
           p == [policy[b] EXCEPT !.verdict = verdict]
<1>1. /\ handle = [rules |-> rules, references |-> handle.references, policy |-> policy,
                   num |-> handle.num, changed |-> handle.changed]
      /\ rules \in [S -> Seq(Rule)] /\ policy \in [BuiltIns -> Policy]
  BY HandleParts
<1>2. p \in Policy
  BY <1>1 DEF Policy
<1> HIDE DEF p
<1>3. PICK r \in Policy :
         /\ Descends(r, handle)
         /\ handle' = [[handle EXCEPT !.policy[b] = r] EXCEPT !.changed = TRUE]
  <2>1. \/ handle' = [[handle EXCEPT !.policy[b] = Counting("set", p, Given)] EXCEPT !.changed = TRUE]
        \/ handle' = [[handle EXCEPT !.policy[b] = Counting("none", p, p.counters)]
                          EXCEPT !.changed = TRUE]
    BY DEF SetPolicy, Edit, Policies, p
  <2>2. /\ Counting("set", p, Given) \in Policy
        /\ Descends(Counting("set", p, Given), handle)
        /\ Counting("none", p, p.counters) \in Policy
        /\ Descends(Counting("none", p, p.counters), handle)
    BY <1>2, CountingParts
  <2> QED
    BY <2>1, <2>2
<1> DEFINE newpolicy == [policy EXCEPT ![b] = r]
<1>4. handle' = Changed(rules, handle.references, newpolicy, handle.num)
  BY <1>1, <1>3 DEF Changed
<1>5. newpolicy \in [BuiltIns -> Policy] /\ \A e \in BuiltIns : Descends(newpolicy[e], handle)
  <2>1. \A e \in BuiltIns : Descends(policy[e], handle)
    BY DEF Descends, Carriers
  <2> QED
    BY <1>1, <1>3, <2>1
<1>6. \A c \in S : \A n \in 1..Len(rules[c]) : Descends(rules[c][n], handle)
  BY OldRules
<1> HIDE DEF newpolicy
<1>7. Edited(handle, Changed(rules, handle.references, newpolicy, handle.num))
  BY <1>1, <1>5, <1>6, Recounting
<1> QED
  BY <1>4, <1>7

\* The operations that change a handle.
EditStep ==
    \/ \E c \in Names :
          \/ \E n \in 0..MaxRules, t \in Targets : InsertEntry(c, n, t) \/ ReplaceEntry(c, n, t)
          \/ \E t \in Targets : DeleteEntry(c, t) \/ DeleteNothing(c, t)
          \/ \E n \in 0..MaxRules : DeleteNumEntry(c, n) \/ ZeroCounter(c, n) \/ SetCounter(c, n)
          \/ FlushEntries(c) \/ ZeroEntries(c)
          \/ CreateChain(c) \/ DeleteChain(c)
    \/ \E b \in BuiltIns, verdict \in {Accept, Drop} : SetPolicy(b, verdict)

\* Whatever the operation, it makes of the handle no more than an edit may.
LEMMA EveryEdit ==
    ASSUME HandleOK(handle), EditStep
    PROVE  Edited(handle, handle')
<1>1. ASSUME NEW c \in Names, NEW n \in 0..MaxRules, NEW t \in Targets,
             InsertEntry(c, n, t) \/ ReplaceEntry(c, n, t)
      PROVE  Edited(handle, handle')
  <2>1. n \in Nat
    OBVIOUS
  <2> QED
    BY <1>1, <2>1, Inserted, Replaced
<1>2. ASSUME NEW c \in Names, NEW t \in Targets, DeleteEntry(c, t)
      PROVE  Edited(handle, handle')
  <2>1. c \in Chains(handle)
    BY <1>2 DEF DeleteEntry
  <2>2. PICK k \in DOMAIN handle.rules[c] : Edit(Without(c, k))
    BY <1>2 DEF DeleteEntry, Rules
  <2>3. k \in 1..Len(handle.rules[c])
    <3>1. handle.rules \in [Chains(handle) -> Seq(Rule)]
      BY HandleParts
    <3> QED
      BY <2>1, <2>2, <3>1
  <2> QED
    BY <2>1, <2>2, <2>3, Taken
<1>3. ASSUME NEW c \in Names, NEW t \in Targets, DeleteNothing(c, t)
      PROVE  Edited(handle, handle')
  BY <1>3, NothingDeleted DEF DeleteNothing
<1>4. ASSUME NEW c \in Names, NEW n \in 0..MaxRules, DeleteNumEntry(c, n)
      PROVE  Edited(handle, handle')
  <2> DEFINE k == n + 1
  <2>1. c \in Chains(handle) /\ n < Len(handle.rules[c]) /\ Edit(Without(c, k))
    BY <1>4 DEF DeleteNumEntry, Rules
  <2>2. k \in 1..Len(handle.rules[c])
    <3>1. handle.rules \in [Chains(handle) -> Seq(Rule)]
      BY HandleParts
    <3> QED
      BY <2>1, <3>1
  <2> HIDE DEF k
  <2> QED
    BY <2>1, <2>2, Taken
<1>5. ASSUME NEW c \in Names, NEW n \in 0..MaxRules, ZeroCounter(c, n)
      PROVE  Edited(handle, handle')
  <2> DEFINE q == handle.rules[c][n]
             r == Zeroed(q)
  <2>1. c \in Chains(handle) /\ n \in DOMAIN handle.rules[c]
    BY <1>5 DEF ZeroCounter, Rules
  <2>2. n \in 1..Len(handle.rules[c])
    <3>1. handle.rules \in [Chains(handle) -> Seq(Rule)]
      BY HandleParts
    <3> QED
      BY <2>1, <3>1
  <2>3. q \in Rule /\ q \in Carriers(handle)
    BY <2>1, <2>2, OldRules
  <2>4. r \in Rule /\ r.type = q.type /\ r.arg = q.arg /\ Descends(r, handle)
    BY <2>3, ZeroedParts
  <2>5. handle' = [[handle EXCEPT !.rules[c][n] = r] EXCEPT !.changed = TRUE]
    BY <1>5 DEF ZeroCounter, Edit
  <2> HIDE DEF r
  <2> QED
    BY <2>1, <2>4, <2>5, OneRecounted
<1>6. ASSUME NEW c \in Names, NEW n \in 0..MaxRules, SetCounter(c, n)
      PROVE  Edited(handle, handle')
  <2> DEFINE q == handle.rules[c][n]
             r == Counting("set", q, Given)
  <2>1. c \in Chains(handle) /\ n \in DOMAIN handle.rules[c]
    BY <1>6 DEF SetCounter, Rules
  <2>2. n \in 1..Len(handle.rules[c])
    <3>1. handle.rules \in [Chains(handle) -> Seq(Rule)]
      BY HandleParts
    <3> QED
      BY <2>1, <3>1
  <2>3. q \in Rule
    BY <2>1, <2>2, OldRules
  <2>4. r \in Rule /\ r.type = q.type /\ r.arg = q.arg /\ Descends(r, handle)
    BY <2>3, CountingParts
  <2>5. handle' = [[handle EXCEPT !.rules[c][n] = r] EXCEPT !.changed = TRUE]
    BY <1>6 DEF SetCounter, Edit
  <2> HIDE DEF r
  <2> QED
    BY <2>1, <2>4, <2>5, OneRecounted
<1>7. ASSUME NEW c \in Names,
             FlushEntries(c) \/ ZeroEntries(c) \/ CreateChain(c) \/ DeleteChain(c)
      PROVE  Edited(handle, handle')
  BY <1>7, Emptied, AllZeroed, Created, ChainGone
<1>8. ASSUME NEW b \in BuiltIns, NEW verdict \in {Accept, Drop}, SetPolicy(b, verdict)
      PROVE  Edited(handle, handle')
  BY <1>8, PolicySet
<1> QED
  BY <1>1, <1>2, <1>3, <1>4, <1>5, <1>6, <1>7, <1>8 DEF EditStep

\* Nothing else changes, and the handle is not being committed.
LEMMA EditAlone ==
    ASSUME EditStep
    PROVE  handle # None /\ replaced = None /\ UNCHANGED <<kernel, replaced, lost, reads, packets>>
BY DEF EditStep, InsertEntry, ReplaceEntry, DeleteEntry, DeleteNothing, DeleteNumEntry, ZeroCounter,
       SetCounter, FlushEntries, ZeroEntries, CreateChain, DeleteChain, SetPolicy, Editing, Edit

-----------------------------------------------------------------------------
\* The invariant, and the steps that keep it.

\* The counter of r is its own, or that of an entry the kernel counts at, and
\* then its map says which and what is to be taken off.
Counted(r) ==
    \/ Own(r)
    \/ /\ r.from \in 1..Len(kernel.entries) /\ r.map.pos = r.from
       /\ kernel.entries[r.from].due # None
       /\ \/ r.map.type = "normal" /\ r.less = 0
          \/ r.map.type = "zeroed" /\ r.less = r.counters

\* During a commit: with what the counter map adds each counter is what it
\* should be.
Owed ==
    \A i \in DOMAIN Layout(handle) :
        Kept(Layout(handle)[i]) =>
            kernel.entries[i].due =
                (kernel.entries[i].counters + NewCounters[i]) % Modulus

\* Every rule and policy has its count.
AllCounted ==
    \A i \in DOMAIN kernel.entries :
        kernel.entries[i].due # None => kernel.entries[i].counters = kernel.entries[i].due

\* The kernel has a table of entries and hook entries, and no other field.
IsTable(t) == t = [entries |-> t.entries, hook_entry |-> t.hook_entry]

\* The inductive invariant.  Between the two halves of a commit the table in the
\* kernel has the shape of the handle, and the counters that are to come make up
\* what the handle owes; at other times every counter is what it counted, in the
\* kernel and in the handle.
RulesetInv ==
    /\ lost \in BOOLEAN
    /\ IsTable(kernel)
    /\ \E g : Ruled(g) /\ Shaped(kernel, g)
    /\ handle # None => HandleOK(handle)
    /\ replaced # None =>
          /\ handle # None
          /\ Shaped(kernel, handle)
          /\ replaced \in [1..handle.num -> Counters]
          /\ ~lost => Owed
    /\ replaced = None /\ ~lost =>
          /\ AllCounted
          /\ handle # None => \A r \in Carriers(handle) : Counted(r)

\* A table whose counters have changed is made of the same handle.
LEMMA Recharged ==
    ASSUME NEW h, NEW t, Shaped(t, h), NEW u,
           u.entries \in Seq(KernelEntries), Len(u.entries) = Len(t.entries),
           u.hook_entry = t.hook_entry,
           \A i \in 1..Len(t.entries) :
              /\ u.entries[i].target = t.entries[i].target
              /\ u.entries[i].arg = t.entries[i].arg
              /\ u.entries[i].size = t.entries[i].size
              /\ u.entries[i].due # None <=> t.entries[i].due # None
    PROVE  Shaped(u, h)
BY DEF Shaped

\* What has a counter is a rule or a policy.
LEMMA CarrierKinds ==
    ASSUME NEW h, HandleOK(h), NEW r \in Carriers(h)
    PROVE  r \in Rule \/ r \in Policy
<1>1. h.rules \in [Chains(h) -> Seq(Rule)] /\ h.policy \in [BuiltIns -> Policy]
  BY HandleParts
<1> QED
  BY <1>1 DEF Carriers

\* What an edit makes of a handle whose rules are counted is counted.
LEMMA DescentCounted ==
    ASSUME NEW h, HandleOK(h), \A q \in Carriers(h) : Counted(q),
           NEW r, Descends(r, h)
    PROVE  Counted(r)
<1>1. CASE r \in Carriers(h)
  BY <1>1
<1>2. CASE Own(r)
  BY <1>2 DEF Counted
<1>3. ASSUME NEW q \in Carriers(h), r = Zeroed(q) PROVE Counted(r)
  <2>1. Counted(q) /\ (q \in Rule \/ q \in Policy)
    BY CarrierKinds
  <2>2. CASE q.map.type = "normal"
    <3>1. r = [q EXCEPT !.map.type = "zeroed", !.less = q.counters]
      BY <1>3, <2>2 DEF Zeroed
    <3>2. /\ r.from = q.from /\ r.map.pos = q.map.pos /\ r.map.type = "zeroed"
          /\ r.less = r.counters
      BY <2>1, <3>1 DEF Rule, Policy, Map
    <3>3. ~Own(q)
      BY <2>2 DEF Own
    <3> QED
      BY <2>1, <3>2, <3>3 DEF Counted
  <2>3. CASE q.map.type # "normal"
    BY <1>3, <2>1, <2>3 DEF Zeroed
  <2> QED
    BY <2>2, <2>3
<1> QED
  BY <1>1, <1>2, <1>3 DEF Descends

\* An edit leaves everything as it was.
LEMMA EditInv ==
    ASSUME RulesetInv, EditStep
    PROVE  RulesetInv'
<1>1. handle # None /\ replaced = None /\ UNCHANGED <<kernel, replaced, lost, reads, packets>>
  BY EditAlone
<1>2. HandleOK(handle)
  BY <1>1 DEF RulesetInv
<1>3. Edited(handle, handle')
  BY <1>2, EveryEdit
<1>4. HandleOK(handle')
  BY <1>2, <1>3, EditedOK
<1>5. ASSUME ~lost', NEW r \in Carriers(handle') PROVE Counted(r)'
  <2>1. \A q \in Carriers(handle) : Counted(q)
    BY <1>1, <1>5 DEF RulesetInv
  <2>2. Descends(r, handle)
    BY <1>3 DEF Edited
  <2>3. Counted(r)
    BY <1>2, <2>1, <2>2, DescentCounted
  <2> QED
    BY <1>1, <2>3 DEF Counted
<1>6. AllCounted' <=> AllCounted
  BY <1>1 DEF AllCounted
<1>7. (\A r \in Carriers(handle') : Counted(r)') <=> (\A r \in Carriers(handle) : Counted(r))'
  OBVIOUS
<1> QED
  BY <1>1, <1>4, <1>5, <1>6, <1>7 DEF RulesetInv

\* What is read from a table is a handle.
LEMMA ParsedOK ==
    ASSUME NEW h, Ruled(h), NEW t, Shaped(t, h)
    PROVE  /\ HandleOK(Parse(t))
           /\ Parse(t).num = Len(t.entries)
           /\ \A r \in Carriers(Parse(t)) :
                 Fresh(t, r)
<1> DEFINE g == Parse(t)
<1>1. PICK B : Laid(h, B)
  BY LaidOut
<1>2. ReadOf(t, h, g)
  BY <1>1, ParsedRules
<1>3. g.policy = [b \in BuiltIns |-> PolicyAt(t, B[b + 1], h.policy[b].verdict)]
  <2>1. /\ g.rules = [c \in Chains(h) |->
                [n \in 1..Len(h.rules[c]) |->
                    RuleAt(t, B[c] + Headers(c) + n, h.rules[c][n].type, h.rules[c][n].arg)]]
        /\ g.references = [c \in Chains(h) |-> Cardinality(JumpsTo(g.rules, c))]
        /\ g.policy = [b \in BuiltIns |-> PolicyAt(t, B[b + 1], h.policy[b].verdict)]
        /\ g.num = Len(t.entries)
    BY <1>1, ParsedShaped
  <2> QED
    BY <2>1
<1>4. g = [rules |-> g.rules, references |-> g.references, policy |-> g.policy,
           num |-> g.num, changed |-> FALSE]
  BY DEF Parse
<1> HIDE DEF g
<1>5. /\ Ruled(g) /\ g.rules \in [Chains(g) -> Seq(Rule)]
      /\ g.references = [c \in Chains(g) |-> Cardinality(JumpsTo(g.rules, c))]
      /\ g.num = Len(t.entries)
      /\ Chains(g) = Chains(h)
  BY <1>2 DEF ReadOf
<1>6. Chains(g) \in SUBSET Names
  BY <1>5 DEF Ruled
<1>7. t.entries \in Seq(KernelEntries) /\ Len(t.entries) \in Nat
  BY DEF Shaped
<1>8. \A r \in Carriers(g) : Fresh(t, r)
  <2>1. \A c \in Chains(g) : \A n \in 1..Len(g.rules[c]) : Fresh(t, g.rules[c][n])
    BY <1>2 DEF ReadOf
  <2>2. \A b \in BuiltIns : Fresh(t, g.policy[b])
    BY <1>2 DEF ReadOf
  <2> QED
    BY <2>1, <2>2 DEF Carriers
<1>9. ASSUME NEW b \in BuiltIns PROVE g.policy[b] \in Policy
  <2> DEFINE p == g.policy[b]
  <2>1. p = PolicyAt(t, B[b + 1], h.policy[b].verdict)
    BY <1>3
  <2>2. p = [verdict |-> p.verdict, map |-> p.map, counters |-> p.counters, from |-> p.from,
             less |-> p.less]
    BY <2>1 DEF PolicyAt
  <2>3. p.verdict \in {Accept, Drop}
    BY <1>2 DEF ReadOf, Ruled
  <2>4. p.map \in Map
    BY <1>2 DEF ReadOf
  <2>5. p.counters \in Counters /\ p.from \in Nat /\ p.less = 0
    <3>1. Fresh(t, p)
      BY <1>2 DEF ReadOf
    <3>2. PICK i \in 1..Len(t.entries) :
              p.from = i /\ p.less = 0 /\ p.counters = t.entries[i].counters
      BY <3>1 DEF Fresh
    <3>3. t.entries[i] \in KernelEntries
      BY <1>7
    <3> HIDE DEF p
    <3> QED
      BY <3>2, <3>3 DEF KernelEntries
  <2> HIDE DEF p
  <2>6. p \in Policy
    BY <2>2, <2>3, <2>4, <2>5 DEF Policy
  <2> QED
    BY <2>6 DEF p
<1>10. g.policy \in [BuiltIns -> Policy]
  <2>1. g.policy = [b \in BuiltIns |-> g.policy[b]]
    BY <1>3
  <2> QED
    BY <1>9, <2>1
<1>11. g.references \in [Chains(g) -> Nat]
  <2>1. ASSUME NEW d \in Chains(g) PROVE Cardinality(JumpsTo(g.rules, d)) \in Nat
    <3>1. JumpsKnown(Chains(g), g.rules, d)
      BY <1>5, <1>6, JumpPlaces
    <3> QED
      BY <3>1 DEF JumpsKnown
  <2> QED
    BY <1>5, <2>1
<1>12. g \in Handles
  <2>1. g.rules \in UNION {[S -> Seq(Rule)] : S \in SUBSET Names}
    BY <1>5, <1>6
  <2>2. g.references \in UNION {[S -> Nat] : S \in SUBSET Names}
    BY <1>6, <1>11
  <2>3. \A a \in UNION {[S -> Seq(Rule)] : S \in SUBSET Names},
           b \in UNION {[S -> Nat] : S \in SUBSET Names}, c \in [BuiltIns -> Policy], n \in Nat :
           [rules |-> a, references |-> b, policy |-> c, num |-> n, changed |-> FALSE] \in Handles
    BY DEF Handles
  <2>4. g.num \in Nat
    BY <1>5, <1>7
  <2>5. [rules |-> g.rules, references |-> g.references, policy |-> g.policy, num |-> g.num,
         changed |-> FALSE] \in Handles
    BY <1>10, <2>1, <2>2, <2>3, <2>4, Zenon
  <2> QED
    BY <1>4, <2>5, Zenon
<1>13. ASSUME NEW r \in Carriers(g) PROVE Positioned(r, g.num)
  <2>1. PICK i \in 1..Len(t.entries) : r.map = Normal(i)
    BY <1>8 DEF Fresh
  <2> QED
    BY <1>5, <2>1 DEF Positioned, Normal
<1>14. HandleOK(g)
  BY <1>5, <1>12, <1>13 DEF HandleOK
<1> QED
  BY <1>5, <1>8, <1>14 DEF g

\* TC_INIT
LEMMA ReadInv ==
    ASSUME RulesetInv, ReadTable
    PROVE  RulesetInv'
<1>1. handle' = Parse(kernel) /\ UNCHANGED <<kernel, replaced, lost>> /\ handle = None
  BY DEF ReadTable
<1>2. PICK g : Ruled(g) /\ Shaped(kernel, g)
  BY DEF RulesetInv
<1>3. HandleOK(handle') /\ \A r \in Carriers(handle') : Fresh(kernel, r)
  BY <1>1, <1>2, ParsedOK
<1>4. replaced = None /\ replaced' = None
  BY <1>1 DEF RulesetInv
<1>5. ASSUME NEW r \in Carriers(handle') PROVE Counted(r)'
  <2>1. PICK i \in 1..Len(kernel.entries) :
           /\ r.map = Normal(i) /\ r.from = i /\ r.less = 0
           /\ kernel.entries[i].due # None
    BY <1>3 DEF Fresh
  <2>2. r.map.type = "normal" /\ r.map.pos = i
    BY <2>1 DEF Normal
  <2> QED
    BY <1>1, <2>1, <2>2 DEF Counted
<1>6. AllCounted' <=> AllCounted
  BY <1>1 DEF AllCounted
<1>7. (\A r \in Carriers(handle') : Counted(r)') <=> (\A r \in Carriers(handle) : Counted(r))'
  OBVIOUS
<1> QED
  BY <1>1, <1>2, <1>3, <1>4, <1>5, <1>6, <1>7 DEF RulesetInv

\* A number minus nought, and less than one takes off and then adds.
LEMMA Remainders ==
    ASSUME NEW x \in Counters
    PROVE  /\ x % Modulus = x /\ (x - 0) % Modulus = x /\ (0 + x) % Modulus = x
           /\ (0 - (0 - x)) % Modulus = x
<1>1. x \in Int /\ x % Modulus = x
  BY RulesetAssumption DEF Counters
<1>2. x - 0 = x /\ 0 + x = x /\ 0 - (0 - x) = x
  BY <1>1
<1> QED
  BY <1>1, <1>2

\* What a rule or policy is due is a counter.
LEMMA DueCounter ==
    ASSUME HandleOK(handle), NEW r \in Carriers(handle),
           \E g : Ruled(g) /\ Shaped(kernel, g),
           ~lost => Counted(r)
    PROVE  Due(r) \in Counters
<1> DEFINE x == IF r.from = None \/ lost THEN 0 ELSE kernel.entries[r.from].due
<1>1. r.less \in Int
  BY CarrierKinds DEF Rule, Policy
<1>2. x \in Int
  <2>1. CASE r.from = None \/ lost
    BY <2>1
  <2>2. CASE ~(r.from = None \/ lost)
    <3>1. r.from \in 1..Len(kernel.entries) /\ kernel.entries[r.from].due # None
      BY <2>2 DEF Counted, Own
    <3>2. kernel.entries \in Seq(KernelEntries)
      BY DEF Shaped
    <3>3. kernel.entries[r.from].due \in Counters
      <4>1. kernel.entries[r.from] \in KernelEntries
        BY <3>1, <3>2
      <4> QED
        BY <3>1, <4>1 DEF KernelEntries
    <3> QED
      BY <2>2, <3>3 DEF Counters
  <2> QED
    BY <2>1, <2>2
<1>3. Due(r) = (x - r.less) % Modulus
  BY DEF Due
<1> HIDE DEF x
<1>4. x - r.less \in Int
  BY <1>1, <1>2
<1>5. \A y \in Int : y % Modulus \in Counters
  BY RulesetAssumption DEF Counters
<1> QED
  BY <1>3, <1>4, <1>5

\* What a counter map adds after the first half of a commit: the count the
\* entry is due.
LEMMA MapBackDue ==
    ASSUME HandleOK(handle), NEW r \in Carriers(handle), Counted(r),
           kernel.entries \in Seq(KernelEntries), AllCounted, ~lost,
           replaced' = [i \in DOMAIN kernel.entries |-> kernel.entries[i].counters]
    PROVE  MapBack(r)' = Due(r) /\ Due(r) \in Counters
<1>0. MapBack(r)' =
         CASE r.map.type = "none" -> 0
           [] r.map.type = "normal" -> replaced'[r.map.pos]
           [] r.map.type = "zeroed" -> (replaced'[r.map.pos] - r.counters) % Modulus
           [] r.map.type = "set" -> r.counters
  BY DEF MapBack
<1>1. r.counters \in Counters /\ r.counters \in Int
  BY CarrierKinds DEF Rule, Policy, Counters
<1>2. CASE Own(r) /\ r.map.type = "set"
  <2>1. Due(r) = (0 - (0 - r.counters)) % Modulus
    BY <1>2 DEF Own, Due
  <2>2. MapBack(r)' = r.counters
    BY <1>0, <1>2
  <2> QED
    BY <1>1, <2>1, <2>2, Remainders
<1>3. CASE Own(r) /\ r.map.type = "none"
  <2>1. Due(r) = (0 - 0) % Modulus
    BY <1>3 DEF Own, Due
  <2>2. MapBack(r)' = 0
    BY <1>0, <1>3
  <2>3. 0 \in Counters
    BY RulesetAssumption DEF Counters
  <2> QED
    BY <2>1, <2>2, <2>3, Remainders
<1>4. CASE ~Own(r)
  <2> DEFINE i == r.from
             x == kernel.entries[i].due
  <2>1. /\ i \in 1..Len(kernel.entries) /\ r.map.pos = i /\ x # None
        /\ \/ r.map.type = "normal" /\ r.less = 0
           \/ r.map.type = "zeroed" /\ r.less = r.counters
    BY <1>4 DEF Counted
  <2>2. /\ replaced'[i] = x /\ x \in Counters
    <3>1. i \in DOMAIN kernel.entries
      BY <2>1
    <3>2. kernel.entries[i].counters = x
      BY <2>1, <3>1 DEF AllCounted
    <3>3. kernel.entries[i].counters \in Counters
      <4>1. kernel.entries[i] \in KernelEntries
        BY <3>1
      <4> QED
        BY <4>1 DEF KernelEntries
    <3> QED
      BY <3>1, <3>2, <3>3
  <2>3. Due(r) = (x - r.less) % Modulus
    <3>1. i # None
      BY <2>1, RulesetAssumption
    <3> QED
      BY <3>1 DEF Due
  <2> HIDE DEF i, x
  <2>4. CASE r.map.type = "normal"
    <3>1. MapBack(r)' = x
      BY <1>0, <2>1, <2>2, <2>4
    <3>2. Due(r) = (x - 0) % Modulus
      BY <2>1, <2>3, <2>4
    <3> QED
      BY <2>2, <3>1, <3>2, Remainders
  <2>5. CASE r.map.type = "zeroed"
    <3>1. MapBack(r)' = (x - r.counters) % Modulus
      BY <1>0, <2>1, <2>2, <2>5
    <3>2. Due(r) = (x - r.counters) % Modulus
      BY <2>1, <2>3, <2>5
    <3>3. (x - r.counters) % Modulus \in Counters
      <4>1. x - r.counters \in Int
        BY <1>1, <2>2 DEF Counters
      <4>2. \A y \in Int : y % Modulus \in Counters
        BY RulesetAssumption DEF Counters
      <4> QED
        BY <4>1, <4>2
    <3> QED
      BY <3>1, <3>2, <3>3
  <2> QED
    BY <2>1, <2>4, <2>5
<1> QED
  BY <1>2, <1>3, <1>4 DEF Own

\* What is added to the counter of a slot.
LEMMA NewCounterOf ==
    ASSUME HandleOK(handle), NEW i \in DOMAIN Layout(handle)
    PROVE  /\ NewCounters \in [DOMAIN Layout(handle) -> {NewCounters[j] : j \in DOMAIN Layout(handle)}]
           /\ Kept(Layout(handle)[i]) => NewCounters[i] = MapBack(Carrier(handle, Layout(handle)[i]))
           /\ ~Kept(Layout(handle)[i]) => NewCounters[i] = 0
<1> DEFINE L == Layout(handle)
           Back(slot) ==
              CASE slot.what = "rule" -> MapBack(Rules[slot.chain][slot.n])
                [] slot.what = "foot" /\ slot.chain \in BuiltIns ->
                      MapBack(Policies[slot.chain])
                [] OTHER -> 0
<1>1. NewCounters = [j \in DOMAIN L |-> Back(L[j])]
  BY DEF NewCounters
<1>2. Kept(L[i]) => Back(L[i]) = MapBack(Carrier(handle, L[i]))
  BY DEF Kept, Carrier, Rules, Policies
<1>3. ~Kept(L[i]) => Back(L[i]) = 0
  BY DEF Kept
<1> HIDE DEF L, Back
<1>4. NewCounters[i] = Back(L[i])
  BY <1>1 DEF L
<1>5. NewCounters \in [DOMAIN L -> {NewCounters[j] : j \in DOMAIN L}]
  BY <1>1
<1> QED
  BY <1>2, <1>3, <1>4, <1>5 DEF L

\* The first half of TC_COMMIT.
LEMMA ReplaceInv ==
    ASSUME RulesetInv, Replace
    PROVE  RulesetInv' /\ Shaped(kernel', handle) /\ HandleOK(handle)
<1>1. /\ handle # None /\ replaced = None /\ handle.num = Len(kernel.entries)
      /\ kernel' = Compile(handle)
      /\ replaced' = [i \in DOMAIN kernel.entries |-> kernel.entries[i].counters]
      /\ handle' = handle /\ lost' = lost
  BY DEF Replace
<1>2. HandleOK(handle) /\ Ruled(handle)
  BY <1>1 DEF RulesetInv, HandleOK
<1>3. kernel.entries \in Seq(KernelEntries) /\ \E g : Ruled(g) /\ Shaped(kernel, g)
  BY DEF RulesetInv, Shaped
<1>4. ~lost => AllCounted /\ \A r \in Carriers(handle) : Counted(r)
  BY <1>1 DEF RulesetInv
<1>5. \A r \in Carriers(handle) : Due(r) \in Counters
  BY <1>2, <1>3, <1>4, DueCounter
<1>6. /\ Shaped(Compile(handle), handle)
      /\ \A i \in DOMAIN Layout(handle) :
            /\ Compile(handle).entries[i].counters = 0
            /\ Kept(Layout(handle)[i]) =>
                  Compile(handle).entries[i].due = Due(Carrier(handle, Layout(handle)[i]))
  BY <1>2, <1>5, CompiledShaped
<1>7. Shaped(kernel', handle)
  BY <1>1, <1>6
<1>8. replaced' \in [1..handle.num -> Counters]
  <2>1. DOMAIN kernel.entries = 1..handle.num
    BY <1>1, <1>3
  <2>2. \A i \in 1..handle.num : kernel.entries[i].counters \in Counters
    <3> TAKE i \in 1..handle.num
    <3>1. kernel.entries[i] \in KernelEntries
      <4>1. i \in DOMAIN kernel.entries /\ kernel.entries \in Seq(KernelEntries)
        BY <1>3, <2>1
      <4> QED
        BY <4>1
    <3> QED
      BY <3>1 DEF KernelEntries
  <2> QED
    BY <1>1, <2>1, <2>2
<1>9. replaced' # None
  <2>1. handle.num \in Nat
    BY <1>2, HandleParts
  <2>2. replaced' \in Seq(Int)
    BY <1>8, <2>1 DEF Counters
  <2> QED
    BY <2>2, RulesetAssumption
<1>10. ASSUME ~lost', NEW i \in DOMAIN Layout(handle), Kept(Layout(handle)[i])
       PROVE  kernel'.entries[i].due = (kernel'.entries[i].counters + NewCounters'[i]) % Modulus
  <2>0. PICK r : r = Carrier(handle, Layout(handle)[i])
    OBVIOUS
  <2>1. r \in Carriers(handle)
    BY <1>2, <1>10, <2>0, SlotsLaid
  <2>2. MapBack(r)' = Due(r) /\ Due(r) \in Counters
    <3>1. Counted(r) /\ AllCounted /\ ~lost
      BY <1>1, <1>4, <1>10, <2>1
    <3> QED
      BY <1>1, <1>2, <1>3, <2>1, <3>1, MapBackDue
  <2>3. kernel'.entries[i].due = Due(r) /\ kernel'.entries[i].counters = 0
    BY <1>1, <1>6, <1>10, <2>0
  <2>4. NewCounters'[i] = MapBack(r)'
    <3> DEFINE slot == Layout(handle)[i]
               Back ==
                  CASE slot.what = "rule" -> MapBack(Rules[slot.chain][slot.n])
                    [] slot.what = "foot" /\ slot.chain \in BuiltIns ->
                          MapBack(Policies[slot.chain])
                    [] OTHER -> 0
    <3>1. i \in DOMAIN Layout(handle')
      BY <1>1
    <3>2. NewCounters'[i] = Back'
      BY <3>1 DEF NewCounters
    <3>3. Back' =
             CASE slot.what = "rule" -> MapBack(Rules[slot.chain][slot.n])'
               [] slot.what = "foot" /\ slot.chain \in BuiltIns ->
                     MapBack(Policies[slot.chain])'
               [] OTHER -> 0
      BY <1>1
    <3>4. slot.what = "rule" \/ (slot.what # "rule" /\ slot.what = "foot" /\ slot.chain \in BuiltIns)
      BY <1>10 DEF Kept
    <3>5. CASE slot.what = "rule"
      <4>1. Back' = MapBack(Rules[slot.chain][slot.n])'
        BY <3>3, <3>5
      <4>2. r = Rules[slot.chain][slot.n] /\ r = (Rules[slot.chain][slot.n])'
        BY <1>1, <2>0, <3>5 DEF Carrier, Rules
      <4> QED
        BY <3>2, <4>1, <4>2 DEF MapBack
    <3>6. CASE slot.what # "rule" /\ slot.what = "foot" /\ slot.chain \in BuiltIns
      <4>1. Back' = MapBack(Policies[slot.chain])'
        BY <3>3, <3>6
      <4>2. r = Policies[slot.chain] /\ r = (Policies[slot.chain])'
        BY <1>1, <2>0, <3>6 DEF Carrier, Policies
      <4> QED
        BY <3>2, <4>1, <4>2 DEF MapBack
    <3> QED
      BY <3>4, <3>5, <3>6
  <2>5. (0 + Due(r)) % Modulus = Due(r)
    BY <2>2, Remainders
  <2> QED
    BY <2>2, <2>3, <2>4, <2>5
<1>11. ~lost' => Owed'
  BY <1>1, <1>10 DEF Owed
<1>12. IsTable(kernel')
  BY <1>1 DEF IsTable, Compile
<1>13. RulesetInv'
  BY <1>1, <1>2, <1>7, <1>8, <1>9, <1>11, <1>12 DEF RulesetInv
<1> QED
  BY <1>2, <1>7, <1>13

\* The number of slots.
LEMMA LayoutLength ==
    ASSUME NEW h, Ruled(h)
    PROVE  DOMAIN Layout(h) = 1..Len(Layout(h)) /\ Len(Layout(h)) \in Nat
<1>1. PICK B : Laid(h, B)
  BY LaidOut
<1>2. Layout(h) \in Seq(Slots)
  BY <1>1 DEF Laid
<1> QED
  BY <1>2

\* What a counter map adds is a number.
LEMMA MapBackNumber ==
    ASSUME HandleOK(handle), replaced \in [1..handle.num -> Counters], NEW r \in Carriers(handle)
    PROVE  MapBack(r) \in Int
<1>1. r.counters \in Int /\ r.map.type \in {"none", "normal", "zeroed", "set"}
  BY CarrierKinds DEF Rule, Policy, Counters, Map
<1>2. r.map.type \in {"normal", "zeroed"} => replaced[r.map.pos] \in Int
  BY DEF HandleOK, Positioned, Counters
<1>3. \A x \in Int : x % Modulus \in Int
  BY RulesetAssumption
<1> DEFINE x == replaced[r.map.pos]
<1>4. MapBack(r) =
         CASE r.map.type = "none" -> 0
           [] r.map.type = "normal" -> x
           [] r.map.type = "zeroed" -> (x - r.counters) % Modulus
           [] r.map.type = "set" -> r.counters
  BY DEF MapBack
<1> HIDE DEF x
<1>5. r.map.type = "zeroed" => (x - r.counters) % Modulus \in Int
  BY <1>1, <1>2, <1>3 DEF x
<1> QED
  BY <1>1, <1>2, <1>4, <1>5 DEF x

\* A packet.
LEMMA PacketInv ==
    ASSUME RulesetInv, NEW k \in DOMAIN kernel.entries, Packet(k)
    PROVE  RulesetInv'
<1> DEFINE E == kernel.entries
           F == kernel'.entries
           e == E[k]
           f == [e EXCEPT !.counters = (@ + 1) % Modulus, !.due = (@ + 1) % Modulus]
<1>1. /\ e.due # None /\ UNCHANGED <<handle, replaced, lost>>
      /\ kernel' = [kernel EXCEPT !.entries[k].counters = (@ + 1) % Modulus,
                                  !.entries[k].due = (@ + 1) % Modulus]
  BY DEF Packet
<1>2. PICK g : Ruled(g) /\ Shaped(kernel, g)
  BY DEF RulesetInv
<1>3. E \in Seq(KernelEntries) /\ Len(E) \in Nat /\ DOMAIN E = 1..Len(E)
  BY <1>2 DEF Shaped
<1>4. kernel = [entries |-> E, hook_entry |-> kernel.hook_entry]
  BY DEF RulesetInv, IsTable
<1>5. e \in KernelEntries
  BY <1>3
<1>6. kernel' = [entries |-> [E EXCEPT ![k] = f], hook_entry |-> kernel.hook_entry]
  BY <1>1, <1>3, <1>4, <1>5 DEF KernelEntries
<1>7. e.due \in Counters /\ e.counters \in Counters
  BY <1>1, <1>5 DEF KernelEntries
<1>8. \A x \in Int : x % Modulus \in Counters
  BY RulesetAssumption DEF Counters
<1>9. (e.due + 1) % Modulus \in Counters /\ (e.counters + 1) % Modulus \in Counters
  BY <1>7, <1>8 DEF Counters
<1>10. None \notin Counters
  BY RulesetAssumption DEF Counters
<1> HIDE DEF e
<1>11. /\ f \in KernelEntries /\ f.target = e.target /\ f.arg = e.arg /\ f.size = e.size
       /\ f.due = (e.due + 1) % Modulus /\ f.counters = (e.counters + 1) % Modulus
  BY <1>5, <1>9 DEF KernelEntries
<1> HIDE DEF f
<1>12. /\ F \in Seq(KernelEntries) /\ Len(F) = Len(E) /\ kernel'.hook_entry = kernel.hook_entry
       /\ F[k] = f /\ \A i \in 1..Len(E) : i # k => F[i] = E[i]
       /\ IsTable(kernel')
  BY <1>3, <1>6, <1>11 DEF IsTable
<1> HIDE DEF E, F
<1>13. \A i \in 1..Len(E) :
          /\ F[i].target = E[i].target /\ F[i].arg = E[i].arg /\ F[i].size = E[i].size
          /\ F[i].due # None <=> E[i].due # None
  <2> TAKE i \in 1..Len(E)
  <2>1. CASE i = k
    BY <1>1, <1>9, <1>10, <1>11, <1>12, <2>1 DEF e
  <2>2. CASE i # k
    BY <1>12, <2>2
  <2> QED
    BY <2>1, <2>2
<1>14. ASSUME NEW h, Shaped(kernel, h) PROVE Shaped(kernel', h)
  BY <1>12, <1>13, <1>14, Recharged DEF E, F
<1>15. \E h : Ruled(h) /\ Shaped(kernel', h)
  BY <1>2, <1>14
<1>16. ASSUME replaced = None, ~lost PROVE AllCounted'
  <2>1. \A i \in 1..Len(E) : E[i].due # None => E[i].counters = E[i].due
    BY <1>3, <1>16 DEF RulesetInv, AllCounted, E
  <2>2. e.counters = e.due
    BY <1>1, <1>3, <2>1 DEF e, E
  <2>3. DOMAIN F = 1..Len(E)
    BY <1>12
  <2>4. \A i \in 1..Len(E) : F[i].due # None => F[i].counters = F[i].due
    BY <1>11, <1>12, <1>13, <2>1, <2>2
  <2> QED
    BY <2>3, <2>4 DEF AllCounted, F
<1>17. ASSUME NEW r, Counted(r) PROVE Counted(r)'
  <2>1. ~Own(r) => r.from \in 1..Len(E)
    BY <1>17 DEF Counted, E
  <2> QED
    BY <1>12, <1>13, <1>17, <2>1 DEF Counted, E, F
<1>18. ASSUME replaced # None, ~lost PROVE Owed'
  <2>1. Owed /\ handle # None /\ Shaped(kernel, handle) /\ HandleOK(handle)
        /\ replaced \in [1..handle.num -> Counters]
    BY <1>18 DEF RulesetInv
  <2>2. NewCounters' = NewCounters
    BY <1>1 DEF NewCounters, MapBack, Rules, Policies
  <2> SUFFICES ASSUME NEW i \in DOMAIN Layout(handle), Kept(Layout(handle)[i])
               PROVE  F[i].due = (F[i].counters + NewCounters[i]) % Modulus
    BY <1>1, <2>2 DEF Owed, F
  <2> DEFINE m == NewCounters[i]
  <2>3. E[i].due = (E[i].counters + m) % Modulus
    BY <2>1 DEF Owed, E
  <2>4. m \in Int
    <3>1. PICK r : r = Carrier(handle, Layout(handle)[i])
      OBVIOUS
    <3>2. r \in Carriers(handle)
      BY <2>1, <3>1, SlotsLaid DEF HandleOK
    <3>3. m = MapBack(r)
      BY <2>1, <3>1, NewCounterOf
    <3> QED
      BY <2>1, <3>2, <3>3, MapBackNumber
  <2>5. i \in 1..Len(E)
    <3>1. Len(Layout(handle)) = Len(E)
      BY <2>1 DEF Shaped, E
    <3>2. i \in 1..Len(Layout(handle))
      BY <2>1, LayoutLength DEF HandleOK
    <3> QED
      BY <3>1, <3>2
  <2> HIDE DEF m
  <2>6. CASE i # k
    BY <1>12, <2>3, <2>5, <2>6 DEF m
  <2>7. CASE i = k
    <3> DEFINE c == e.counters
    <3>1. c \in Int /\ e.due = (c + m) % Modulus
      BY <1>7, <2>3, <2>7 DEF e, Counters, E
    <3>2. F[i].due = (e.due + 1) % Modulus /\ F[i].counters = (c + 1) % Modulus
      BY <1>11, <1>12, <2>7
    <3> HIDE DEF c
    <3>3. (((c + m) % Modulus) + 1) % Modulus = ((c + m) + 1) % Modulus
      <4>1. c + m \in Int /\ Modulus \in Nat \ {0}
        BY <2>4, <3>1, RulesetAssumption
      <4> QED
        BY <4>1, RemainderFirst
    <3>4. (((c + 1) % Modulus) + m) % Modulus = ((c + 1) + m) % Modulus
      <4>1. c + 1 \in Int /\ Modulus \in Nat \ {0}
        BY <2>4, <3>1, RulesetAssumption
      <4> QED
        BY <2>4, <4>1, RemainderFirst
    <3>5. (c + m) + 1 = (c + 1) + m
      BY <2>4, <3>1
    <3> QED
      BY <3>1, <3>2, <3>3, <3>4, <3>5 DEF m
  <2> QED
    BY <2>6, <2>7
<1> QED
  BY <1>1, <1>12, <1>14, <1>15, <1>16, <1>17, <1>18 DEF RulesetInv

\* The second half of TC_COMMIT.
LEMMA AddInv ==
    ASSUME RulesetInv, AddCounters
    PROVE  RulesetInv'
<1> DEFINE E == kernel.entries
           F == kernel'.entries
           m == NewCounters
           G == [i \in DOMAIN E |-> [E[i] EXCEPT !.counters = (@ + m[i]) % Modulus]]
<1>1. /\ replaced # None /\ replaced' = None /\ handle' = None /\ lost' = lost
      /\ kernel' = [kernel EXCEPT !.entries = G]
  BY DEF AddCounters
<1>2. /\ handle # None /\ HandleOK(handle) /\ Shaped(kernel, handle)
      /\ replaced \in [1..handle.num -> Counters] /\ (~lost => Owed)
      /\ lost \in BOOLEAN
  BY <1>1 DEF RulesetInv
<1>3. Ruled(handle)
  BY <1>2 DEF HandleOK
<1>4. E \in Seq(KernelEntries) /\ Len(E) \in Nat /\ DOMAIN E = 1..Len(E)
      /\ DOMAIN Layout(handle) = 1..Len(E)
  <2>1. E \in Seq(KernelEntries) /\ Len(E) = Len(Layout(handle))
    BY <1>2 DEF Shaped
  <2> QED
    BY <1>3, <2>1, LayoutLength
<1>5. kernel = [entries |-> E, hook_entry |-> kernel.hook_entry]
  BY DEF RulesetInv, IsTable
<1> HIDE DEF m
<1>6. /\ F = [i \in 1..Len(E) |-> [E[i] EXCEPT !.counters = (@ + m[i]) % Modulus]]
      /\ kernel' = [entries |-> F, hook_entry |-> kernel.hook_entry]
  <2>2. G = [i \in 1..Len(E) |-> [E[i] EXCEPT !.counters = (@ + m[i]) % Modulus]]
    BY <1>4
  <2> HIDE DEF G
  <2>3. kernel' = [entries |-> G, hook_entry |-> kernel.hook_entry]
    BY <1>1, <1>5
  <2>4. F = G
    BY <2>3
  <2> HIDE DEF E, F
  <2> QED
    BY <2>2, <2>3, <2>4
<1> HIDE DEF E, F
<1>7. ASSUME NEW i \in 1..Len(E) PROVE m[i] \in Int
  <2>1. i \in DOMAIN Layout(handle)
    BY <1>4
  <2>2. CASE Kept(Layout(handle)[i])
    <3>1. PICK r : r = Carrier(handle, Layout(handle)[i])
      OBVIOUS
    <3>2. r \in Carriers(handle)
      BY <1>3, <2>1, <2>2, <3>1, SlotsLaid
    <3>3. m[i] = MapBack(r)
      BY <1>2, <2>1, <2>2, <3>1, NewCounterOf DEF m
    <3> QED
      BY <1>2, <3>2, <3>3, MapBackNumber
  <2>3. CASE ~Kept(Layout(handle)[i])
    <3>1. m[i] = 0
      BY <1>2, <2>1, <2>3, NewCounterOf DEF m
    <3> QED
      BY <3>1
  <2> QED
    BY <2>2, <2>3
<1>8. ASSUME NEW i \in 1..Len(E)
      PROVE  /\ F[i] \in KernelEntries
             /\ F[i].target = E[i].target /\ F[i].arg = E[i].arg /\ F[i].size = E[i].size
             /\ F[i].due = E[i].due /\ F[i].counters = (E[i].counters + m[i]) % Modulus
  <2> DEFINE x == E[i]
             y == (x.counters + m[i]) % Modulus
  <2>1. x \in KernelEntries
    BY <1>4
  <2>2. y \in Counters
    <3>1. x.counters + m[i] \in Int
      BY <1>7, <2>1 DEF KernelEntries, Counters
    <3>2. \A z \in Int : z % Modulus \in Counters
      BY RulesetAssumption DEF Counters
    <3> QED
      BY <3>1, <3>2
  <2>3. F[i] = [x EXCEPT !.counters = y]
    BY <1>6
  <2> HIDE DEF x, y
  <2>4. /\ F[i] \in KernelEntries
        /\ F[i].target = x.target /\ F[i].arg = x.arg /\ F[i].size = x.size
        /\ F[i].due = x.due /\ F[i].counters = y
    BY <2>1, <2>2, <2>3 DEF KernelEntries
  <2> QED
    BY <2>4 DEF x, y
<1>9. F \in Seq(KernelEntries) /\ Len(F) = Len(E) /\ DOMAIN F = 1..Len(E)
  <2>1. F = [i \in 1..Len(E) |-> F[i]]
    BY <1>6
  <2>2. F \in [1..Len(E) -> KernelEntries]
    BY <1>8, <2>1
  <2> QED
    BY <1>4, <2>2
<1>10. IsTable(kernel') /\ kernel'.hook_entry = kernel.hook_entry
  BY <1>6 DEF IsTable, F
<1>11. Shaped(kernel', handle)
  <2>1. \A i \in 1..Len(E) :
           /\ F[i].target = E[i].target /\ F[i].arg = E[i].arg /\ F[i].size = E[i].size
           /\ F[i].due # None <=> E[i].due # None
    BY <1>8
  <2> QED
    BY <1>2, <1>9, <1>10, <2>1, Recharged DEF E, F
<1>12. ASSUME ~lost PROVE AllCounted'
  <2> SUFFICES ASSUME NEW i \in 1..Len(E), F[i].due # None PROVE F[i].counters = F[i].due
    BY <1>9 DEF AllCounted, F
  <2>1. i \in DOMAIN Layout(handle) /\ Kept(Layout(handle)[i])
    <3>1. E[i].due # None
      BY <1>8
    <3>2. i \in 1..Len(Layout(handle))
      BY <1>3, <1>4, LayoutLength
    <3> QED
      BY <1>2, <1>4, <3>1, <3>2 DEF Shaped, E
  <2>2. E[i].due = (E[i].counters + m[i]) % Modulus
    BY <1>2, <1>12, <2>1 DEF Owed, E, m
  <2> QED
    BY <1>8, <2>2
<1> QED
  BY <1>1, <1>2, <1>3, <1>10, <1>11, <1>12 DEF RulesetInv

\* The second half of TC_COMMIT fails.
LEMMA FailInv ==
    ASSUME RulesetInv, AddCountersFails
    PROVE  RulesetInv'
BY DEF AddCountersFails, RulesetInv

\* TC_FREE, and TC_COMMIT of a handle that has not changed.
LEMMA FreeInv ==
    ASSUME RulesetInv, Free
    PROVE  RulesetInv'
<1>1. UNCHANGED <<kernel, replaced, lost>> /\ handle' = None /\ replaced = None
  BY DEF Free
<1>2. AllCounted' <=> AllCounted
  BY <1>1 DEF AllCounted
<1>3. lost' \in BOOLEAN /\ IsTable(kernel') /\ \E g : Ruled(g) /\ Shaped(kernel', g)
  BY <1>1 DEF RulesetInv
<1>4. ~lost => AllCounted
  BY <1>1 DEF RulesetInv
<1> QED
  BY <1>1, <1>2, <1>3, <1>4 DEF RulesetInv

\* A step that changes nothing.
LEMMA StutterInv ==
    ASSUME RulesetInv, UNCHANGED vars
    PROVE  RulesetInv'
BY DEF RulesetInv, vars, AllCounted, Owed, Counted, NewCounters, MapBack, Rules, Policies

\* What a rule of the first table may be.
LEMMA InitialRulesFit ==
    ASSUME NEW names \in SUBSET Names, BuiltIns \subseteq names,
           NEW s \in InitialRules(names)
    PROVE  /\ s \in Seq(Rule)
           /\ \A n \in 1..Len(s) : /\ RuleFits(s[n], names)
                                   /\ s[n].from = None /\ s[n].less = 0
<1> DEFINE r(type, arg) == InitialRule(type, arg)
           map == [type |-> "none", pos |-> 1]
<1>1. \A type, arg :
         r(type, arg) = [type |-> type, arg |-> arg, map |-> map, counters |-> 0,
                         from |-> None, less |-> 0]
  BY DEF InitialRule, Unmapped
<1>2. map \in Map /\ 0 \in 0..(Modulus - 1)
  BY RulesetAssumption DEF Map
<1> HIDE DEF map
<1>3. ASSUME NEW type \in {"standard", "fallthrough", "module", "jump"},
             NEW arg \in {Accept, None} \cup UserChains \cup Modules,
             \/ type = "standard" /\ arg = Accept
             \/ type = "fallthrough" /\ arg = None
             \/ type = "module" /\ arg \in UserChains \cup Modules
             \/ type = "jump" /\ arg \in UserChains /\ arg \in names,
             s = <<r(type, arg)>>
      PROVE  /\ s \in Seq(Rule)
             /\ \A n \in 1..Len(s) : /\ RuleFits(s[n], names)
                                     /\ s[n].from = None /\ s[n].less = 0
  <2>1. r(type, arg) \in Rule
    BY <1>1, <1>2 DEF Rule
  <2>2. /\ r(type, arg).type = type /\ r(type, arg).arg = arg
        /\ r(type, arg).from = None /\ r(type, arg).less = 0
    BY <1>1
  <2> HIDE DEF r
  <2>3. RuleFits(r(type, arg), names)
    BY <1>3, <2>2 DEF RuleFits
  <2> QED
    BY <1>3, <2>1, <2>2, <2>3
<1>4. CASE s = <<>>
  BY <1>4
<1>5. CASE s = <<InitialRule("standard", Accept)>>
  BY <1>3, <1>5
<1>6. CASE s = <<InitialRule("fallthrough", None)>>
  BY <1>3, <1>6
<1>7. ASSUME NEW x \in Modules, s = <<InitialRule("module", x)>>
      PROVE  /\ s \in Seq(Rule)
             /\ \A n \in 1..Len(s) : /\ RuleFits(s[n], names)
                                     /\ s[n].from = None /\ s[n].less = 0
  BY <1>3, <1>7
<1>8. ASSUME NEW d \in names \ BuiltIns, s = <<InitialRule("jump", d)>>
      PROVE  /\ s \in Seq(Rule)
             /\ \A n \in 1..Len(s) : /\ RuleFits(s[n], names)
                                     /\ s[n].from = None /\ s[n].less = 0
  <2>1. d \in UserChains
    BY DEF Names
  <2> QED
    BY <1>3, <1>8, <2>1
<1> QED
  BY <1>4, <1>5, <1>6, <1>7, <1>8 DEF InitialRules

\* A table all of whose entries have met the same number of packets.
LEMMA MetShaped ==
    ASSUME NEW h, NEW t, Shaped(t, h), IsTable(t), NEW v \in Counters
    PROVE  /\ Shaped(Met(t, v), h) /\ IsTable(Met(t, v))
           /\ \A i \in DOMAIN Met(t, v).entries :
                 Met(t, v).entries[i].due # None =>
                     Met(t, v).entries[i].counters = Met(t, v).entries[i].due
<1> DEFINE E == t.entries
           u == Met(t, v)
           F == [i \in DOMAIN E |->
                   IF E[i].due = None THEN E[i] ELSE [E[i] EXCEPT !.counters = v, !.due = v]]
<1>1. t = [entries |-> E, hook_entry |-> t.hook_entry]
  BY DEF IsTable
<1>2. u = [t EXCEPT !.entries = F]
  BY DEF Met
<1> HIDE DEF u, F
<1>3. u = [entries |-> F, hook_entry |-> t.hook_entry]
  BY <1>1, <1>2
<1>4. u.entries = F /\ u.hook_entry = t.hook_entry /\ IsTable(u)
  BY <1>3 DEF IsTable
<1>5. E \in Seq(KernelEntries) /\ DOMAIN E = 1..Len(E) /\ Len(E) \in Nat
  BY DEF Shaped
<1> HIDE DEF E
<1>6. F = [i \in 1..Len(E) |->
              IF E[i].due = None THEN E[i] ELSE [E[i] EXCEPT !.counters = v, !.due = v]]
  BY <1>5 DEF F
<1>7. None \notin Counters
  BY RulesetAssumption DEF Counters
<1>8. ASSUME NEW i \in 1..Len(E)
      PROVE  /\ F[i] \in KernelEntries
             /\ F[i].target = E[i].target /\ F[i].arg = E[i].arg /\ F[i].size = E[i].size
             /\ F[i].due # None <=> E[i].due # None
             /\ F[i].due # None => F[i].counters = F[i].due
  <2> DEFINE e == E[i]
             f == F[i]
  <2>1. e \in KernelEntries
    BY <1>5
  <2>2. f = IF e.due = None THEN e ELSE [e EXCEPT !.counters = v, !.due = v]
    BY <1>6
  <2> HIDE DEF e, f
  <2>3. CASE e.due = None
    BY <2>1, <2>2, <2>3 DEF e, f
  <2>4. CASE e.due # None
    <3>1. f = [e EXCEPT !.counters = v, !.due = v]
      BY <2>2, <2>4
    <3>2. /\ f \in KernelEntries
          /\ f.target = e.target /\ f.arg = e.arg /\ f.size = e.size
          /\ f.due = v /\ f.counters = v
      BY <2>1, <3>1 DEF KernelEntries
    <3> QED
      BY <1>7, <2>4, <3>2 DEF e, f
  <2> QED
    BY <2>3, <2>4
<1>9. F \in Seq(KernelEntries) /\ Len(F) = Len(E) /\ DOMAIN F = 1..Len(E)
  <2>1. F = [i \in 1..Len(E) |-> F[i]]
    BY <1>6
  <2>2. F \in [1..Len(E) -> KernelEntries]
    BY <1>8, <2>1
  <2> QED
    BY <1>5, <2>2
<1>10. Shaped(u, h)
  <2>1. u.entries \in Seq(KernelEntries) /\ Len(u.entries) = Len(t.entries)
    BY <1>4, <1>9 DEF E
  <2>2. \A i \in 1..Len(t.entries) :
          /\ u.entries[i].target = t.entries[i].target
          /\ u.entries[i].arg = t.entries[i].arg
          /\ u.entries[i].size = t.entries[i].size
          /\ u.entries[i].due # None <=> t.entries[i].due # None
    BY <1>4, <1>8 DEF E
  <2> QED
    BY <1>4, <2>1, <2>2, Recharged
<1>11. \A i \in DOMAIN u.entries : u.entries[i].due # None => u.entries[i].counters = u.entries[i].due
  BY <1>4, <1>8, <1>9
<1> QED
  BY <1>4, <1>10, <1>11 DEF u

\* The first tables are made of handles.
LEMMA InitialHandlesRuled ==
    ASSUME NEW h \in InitialHandles
    PROVE  Ruled(h) /\ \A r \in Carriers(h) : r.from = None /\ r.less = 0
<1> DEFINE p == [verdict |-> Accept, map |-> Unmapped("none"), counters |-> 0,
                 from |-> None, less |-> 0]
<1>1. PICK S \in SUBSET UserChains :
         \E f \in [BuiltIns \cup S -> InitialRules(BuiltIns \cup S)] :
            h = [rules |-> f, policy |-> [b \in BuiltIns |-> p]]
  BY DEF InitialHandles
<1> DEFINE names == BuiltIns \cup S
<1>2. PICK f \in [names -> InitialRules(names)] :
         h = [rules |-> f, policy |-> [b \in BuiltIns |-> p]]
  BY <1>1
<1>3. names \in SUBSET Names /\ BuiltIns \subseteq names
  BY DEF Names
<1>4. h.rules = f /\ h.policy = [b \in BuiltIns |-> p] /\ Chains(h) = names
  BY <1>2 DEF Chains
<1>5. p.verdict = Accept /\ p.from = None /\ p.less = 0
  OBVIOUS
<1> HIDE DEF p, names
<1>6. ASSUME NEW c \in names
      PROVE  /\ f[c] \in Seq(Rule)
             /\ \A n \in 1..Len(f[c]) : /\ RuleFits(f[c][n], names)
                                        /\ f[c][n].from = None /\ f[c][n].less = 0
  <2>1. f[c] \in InitialRules(names)
    OBVIOUS
  <2> QED
    BY <1>3, <2>1, InitialRulesFit
<1>7. Ruled(h)
  BY <1>3, <1>4, <1>5, <1>6 DEF Ruled
<1>8. \A r \in Carriers(h) : r.from = None /\ r.less = 0
  BY <1>4, <1>5, <1>6 DEF Carriers
<1> QED
  BY <1>7, <1>8

\* It holds at first.
LEMMA InitRulesetInv == Init => RulesetInv
<1> SUFFICES ASSUME Init PROVE RulesetInv
  OBVIOUS
<1>1. PICK h \in InitialHandles : kernel = Met(Compile(h), Given)
  BY DEF Init
<1>2. handle = None /\ replaced = None /\ lost = FALSE
  BY DEF Init
<1>3. Ruled(h) /\ \A r \in Carriers(h) : r.from = None /\ r.less = 0
  BY InitialHandlesRuled
<1>4. 0 \in Counters /\ Given \in Counters
  BY RulesetAssumption DEF Counters
<1>5. \A r \in Carriers(h) : Due(r) \in Counters
  <2> TAKE r \in Carriers(h)
  <2>1. Due(r) = (0 - 0) % Modulus
    BY <1>3 DEF Due
  <2> QED
    BY <1>4, <2>1, Remainders
<1>6. Shaped(Compile(h), h)
  BY <1>3, <1>5, CompiledShaped
<1>7. IsTable(Compile(h))
  BY DEF IsTable, Compile
<1>8. Shaped(kernel, h) /\ IsTable(kernel) /\ AllCounted
  BY <1>1, <1>4, <1>6, <1>7, MetShaped DEF AllCounted
<1> QED
  BY <1>2, <1>3, <1>8 DEF RulesetInv

\* Every step keeps it.
LEMMA NextRulesetInv == RulesetInv /\ [Next]_vars => RulesetInv'
<1> SUFFICES ASSUME RulesetInv, [Next]_vars PROVE RulesetInv'
  OBVIOUS
<1>1. CASE ReadTable
  BY <1>1, ReadInv
<1>2. CASE EditStep
  BY <1>2, EditInv
<1>3. CASE Replace
  BY <1>3, ReplaceInv
<1>4. CASE AddCounters
  BY <1>4, AddInv
<1>5. CASE AddCountersFails
  BY <1>5, FailInv
<1>6. CASE Free
  BY <1>6, FreeInv
<1>7. ASSUME NEW i \in DOMAIN kernel.entries, Packet(i) PROVE RulesetInv'
  BY <1>7, PacketInv
<1>8. CASE UNCHANGED vars
  BY <1>8, StutterInv
<1> QED
  BY <1>1, <1>2, <1>3, <1>4, <1>5, <1>6, <1>7, <1>8 DEF Next, EditStep, Names

\* What the invariant says of types.
LEMMA InvTypes == RulesetInv => TypeOK
<1> SUFFICES ASSUME RulesetInv PROVE TypeOK
  OBVIOUS
<1>1. PICK g : Shaped(kernel, g)
  BY DEF RulesetInv
<1>2. \A i \in DOMAIN kernel.entries : kernel.entries[i].counters \in 0..(Modulus - 1)
  <2> TAKE i \in DOMAIN kernel.entries
  <2>1. kernel.entries \in Seq(KernelEntries)
    BY <1>1 DEF Shaped
  <2>2. kernel.entries[i] \in KernelEntries
    BY <2>1
  <2> QED
    BY <2>2 DEF KernelEntries, Counters
<1>3. ASSUME handle # None
      PROVE  /\ Chains(handle) \subseteq BuiltIns \cup UserChains
             /\ handle.rules \in [Chains(handle) -> Seq(Rule)]
             /\ handle.references \in [Chains(handle) -> Nat]
             /\ \A b \in BuiltIns : Policies[b].map \in Map
  <2>1. HandleOK(handle)
    BY <1>3 DEF RulesetInv
  <2>2. Chains(handle) \in SUBSET Names /\ handle.policy \in [BuiltIns -> Policy]
        /\ handle.rules \in [Chains(handle) -> Seq(Rule)]
        /\ handle.references \in [Chains(handle) -> Nat]
    BY <2>1, HandleParts
  <2> QED
    BY <2>2 DEF Names, Policies, Policy
<1>4. lost \in BOOLEAN
  BY DEF RulesetInv
<1> QED
  BY <1>2, <1>3, <1>4 DEF TypeOK

\* What it says of references.
LEMMA InvReferences == RulesetInv => ReferencesCount
<1> SUFFICES ASSUME RulesetInv, handle # None
             PROVE  /\ \A c \in Chains(handle) :
                          handle.references[c] = Cardinality(JumpsTo(Rules, c))
                    /\ \A at \in AllRules(Rules) :
                          Rules[at[1]][at[2]].type = "jump" =>
                              Rules[at[1]][at[2]].arg \in Chains(handle)
  BY DEF ReferencesCount
<1>1. HandleOK(handle)
  BY DEF RulesetInv
<1>2. /\ Chains(handle) \in SUBSET Names /\ handle.rules \in [Chains(handle) -> Seq(Rule)]
      /\ \A d \in Chains(handle) : handle.references[d] = Cardinality(JumpsTo(handle.rules, d))
  BY <1>1, HandleParts
<1>3. ASSUME NEW at \in AllRules(Rules)
      PROVE  Rules[at[1]][at[2]].type = "jump" => Rules[at[1]][at[2]].arg \in Chains(handle)
  <2>1. JumpsKnown(Chains(handle), handle.rules, None)
    BY <1>2, JumpPlaces
  <2>2. at = <<at[1], at[2]>> /\ at \in AllRules(handle.rules)
    BY <2>1 DEF JumpsKnown, Rules
  <2>3. at[1] \in Chains(handle) /\ at[2] \in 1..Len(handle.rules[at[1]])
    BY <2>1, <2>2 DEF JumpsKnown
  <2>4. RuleFits(handle.rules[at[1]][at[2]], Chains(handle))
    BY <1>1, <2>3, OldRules
  <2> QED
    BY <2>4 DEF RuleFits, Rules
<1> QED
  BY <1>2, <1>3 DEF Rules

\* What a step does to the rules the kernel has.
LEMMA StepExact ==
    RulesetInv /\ [Next]_vars =>
        (replaced = None /\ replaced' # None =>
            Content(Parse(kernel')) = Content(handle) /\ JumpsArrive(kernel'))
<1> SUFFICES ASSUME RulesetInv, [Next]_vars, replaced = None, replaced' # None
             PROVE  Content(Parse(kernel')) = Content(handle) /\ JumpsArrive(kernel')
  OBVIOUS
<1>1. Replace
  <2>1. ~EditStep
    BY EditAlone
  <2>2. ~ReadTable /\ ~AddCounters /\ ~AddCountersFails /\ ~Free /\ ~UNCHANGED vars
    BY DEF ReadTable, AddCounters, AddCountersFails, Free, vars
  <2>3. \A i \in DOMAIN kernel.entries : ~Packet(i)
    BY DEF Packet
  <2> QED
    BY <2>1, <2>2, <2>3 DEF Next, EditStep, Names
<1>2. Shaped(kernel', handle) /\ Ruled(handle)
  BY <1>1, ReplaceInv DEF HandleOK
<1>3. Content(Parse(kernel')) = Content(handle)
  BY <1>2, ContentShaped
<1>4. JumpsArrive(kernel')
  BY <1>2, JumpsArriveShaped
<1> QED
  BY <1>3, <1>4

\* It holds always.
LEMMA RulesetInvariant == Spec => []RulesetInv
  BY InitRulesetInv, NextRulesetInv, PTL DEF Spec

\* Whatever is read, edited and committed, tables and handles are made of what
\* they may be made of.
THEOREM RulesetTypeCorrect == Spec => []TypeOK
  BY RulesetInvariant, InvTypes, PTL

\* libiptc's counts of references are the numbers of jumps there are, however a
\* handle is edited (iptcc_map_target, iptcc_delete_rule, TC_DELETE_CHAIN).
THEOREM ReferencesCorrect == Spec => []ReferencesCount
  BY RulesetInvariant, InvReferences, PTL

\* Counters survive edits and commits, with the packets that pass meanwhile
\* (TC_COMMIT, the counter maps).
THEOREM CountersCorrect == Spec => []KeepsCounters
<1>1. RulesetInv => KeepsCounters
  BY DEF RulesetInv, KeepsCounters, AllCounted
<1> QED
  BY <1>1, RulesetInvariant, PTL

\* What a commit gives the kernel is the handle's rules and policies, and its
\* jumps arrive (iptcc_compile_table, parse_table).
THEOREM CommitCorrect == Spec => CommitIsExact
<1>1. Spec => [][RulesetInv /\ [Next]_vars]_vars
  BY RulesetInvariant, PTL DEF Spec
<1> QED
  BY <1>1, RulesetInvariant, StepExact, PTL DEF CommitIsExact, Spec

-----------------------------------------------------------------------------
\* The socket that the handles share.

(* Counting the users.                                                     *)

\* The handles are finitely many, so there is a number of users.
LEMMA UsersType ==
    ASSUME SocketTypeOK
    PROVE  /\ IsFiniteSet(live)
           /\ Cardinality(live) \in Nat
           /\ Users \in Nat
           /\ initing # Null => Users = Cardinality(live) + 1
           /\ initing = Null => Users = Cardinality(live)
<1>1. IsFiniteSet(live)
  BY SocketAssumption, FS_Subset DEF SocketTypeOK
<1>2. Cardinality(live) \in Nat
  BY <1>1, FS_CardinalityType
<1>3. QED
  BY <1>1, <1>2 DEF Users

\* A handle that is complete is counted once, as it was before.
LEMMA CompletedUsers ==
    ASSUME SocketTypeOK, initing # Null, initing \notin live,
           live' = live \cup {initing}, initing' = Null
    PROVE  Users' = Users
<1>1. IsFiniteSet(live) /\ Cardinality(live) \in Nat
  BY UsersType
<1>2. Cardinality(live \cup {initing}) = Cardinality(live) + 1
  BY <1>1, FS_AddElement
<1>3. QED
  BY <1>1, <1>2 DEF Users

\* A handle that is freed is counted no more.
LEMMA FreedUsers ==
    ASSUME SocketTypeOK, initing = Null, NEW t \in live,
           live' = live \ {t}, initing' = Null
    PROVE  Users' = Users - 1
<1>1. IsFiniteSet(live) /\ Cardinality(live) \in Nat
  BY UsersType
<1>2. Cardinality(live \ {t}) = Cardinality(live) - 1
  BY <1>1, FS_RemoveElement
<1>3. QED
  BY <1>1, <1>2 DEF Users

-----------------------------------------------------------------------------
(* Types.                                                                  *)

\* TC_INIT reads a table that has no handle yet.
InitingIsNew == initing \notin live

\* The types hold at first.
LEMMA SocketInitTypeOK == SocketInit => SocketTypeOK
<1> SUFFICES ASSUME SocketInit PROVE SocketTypeOK
  OBVIOUS
<1>1. sockfd \in BOOLEAN /\ raced \in BOOLEAN
  BY Zenon DEF SocketInit
<1>2. QED
  BY <1>1 DEF SocketInit, SocketTypeOK

\* The socket keeps its types, and no table gets a second handle.
THEOREM SocketTypeCorrect == SocketSpec => [](SocketTypeOK /\ InitingIsNew)
<1>1. SocketInit => SocketTypeOK /\ InitingIsNew
  BY SocketInitTypeOK DEF SocketInit, InitingIsNew
<1>2. SocketTypeOK /\ InitingIsNew /\ [SocketNext]_socketVars => (SocketTypeOK /\ InitingIsNew)'
  <2> SUFFICES ASSUME SocketTypeOK, InitingIsNew, [SocketNext]_socketVars
               PROVE  SocketTypeOK' /\ InitingIsNew'
    OBVIOUS
  <2> USE SocketAssumption
  <2>1. ASSUME NEW t \in Tables, InitHandle(t) PROVE SocketTypeOK' /\ InitingIsNew'
    BY <2>1 DEF InitHandle, SocketTypeOK, InitingIsNew
  <2>2. ASSUME NEW t \in Tables, FreeHandle(t) PROVE SocketTypeOK' /\ InitingIsNew'
    BY <2>2 DEF FreeHandle, GiveBack, SocketTypeOK, InitingIsNew
  <2>3. CASE GetInfo
    BY <2>3 DEF GetInfo, SocketTypeOK, InitingIsNew
  <2>4. CASE GetInfoFails
    BY <2>4 DEF GetInfoFails, GiveBack, SocketTypeOK, InitingIsNew
  <2>5. CASE GetEntries
    BY <2>5 DEF GetEntries, SocketTypeOK, InitingIsNew
  <2>6. CASE GetEntriesFails
    BY <2>6 DEF GetEntriesFails, GiveBack, SocketTypeOK, InitingIsNew
  <2>7. CASE Retry
    BY <2>7 DEF Retry, GiveBack, SocketTypeOK, InitingIsNew
  <2>8. CASE OtherProcess
    BY <2>8 DEF OtherProcess, SocketTypeOK, InitingIsNew
  <2>9. CASE UNCHANGED socketVars
    BY <2>9 DEF socketVars, SocketTypeOK, InitingIsNew
  <2>10. QED
    BY <2>1, <2>2, <2>3, <2>4, <2>5, <2>6, <2>7, <2>8, <2>9 DEF SocketNext
<1>3. QED
  BY <1>1, <1>2, PTL DEF SocketSpec

-----------------------------------------------------------------------------
(* What happens to the count.                                              *)

\* Every step but a retry changes the number of users and the count of the
\* socket alike; a retry takes the count down.
LEMMA UsersFollow ==
    ASSUME SocketTypeOK, InitingIsNew, [SocketNext]_socketVars
    PROVE  \/ /\ \E t \in Tables : InitHandle(t)
              /\ sockfd_use' = sockfd_use + 1 /\ Users' = Users + 1
           \/ /\ GiveBack
              /\ sockfd_use' = sockfd_use - 1 /\ Users' = Users - 1
           \/ Retry /\ sockfd_use' = sockfd_use - 1 /\ Users' = Users
           \/ UNCHANGED <<sockfd, sockfd_use>> /\ Users' = Users
<1> USE SocketAssumption
<1>0. Cardinality(live) \in Nat
  BY UsersType
<1>1. ASSUME NEW t \in Tables, InitHandle(t)
      PROVE  sockfd_use' = sockfd_use + 1 /\ Users' = Users + 1
  BY <1>0, <1>1 DEF InitHandle, Users
<1>2. ASSUME NEW t \in Tables, FreeHandle(t)
      PROVE  GiveBack /\ sockfd_use' = sockfd_use - 1 /\ Users' = Users - 1
  BY <1>2, FreedUsers DEF FreeHandle, GiveBack
<1>3. CASE GetInfo \/ OtherProcess \/ UNCHANGED socketVars
  BY <1>3 DEF GetInfo, OtherProcess, socketVars, Users
<1>4. CASE GetInfoFails \/ GetEntriesFails
  BY <1>0, <1>4 DEF GetInfoFails, GetEntriesFails, GiveBack, Users
<1>5. CASE GetEntries
  BY <1>5, CompletedUsers DEF GetEntries, InitingIsNew
<1>6. CASE Retry
  BY <1>6 DEF Retry, GiveBack, Users
<1>7. QED
  BY <1>1, <1>2, <1>3, <1>4, <1>5, <1>6 DEF SocketNext

\* Whatever other processes do while a table is read: the descriptor is
\* never open without a user, and the count never exceeds the users.
THEOREM NoLeak == SocketSpec => []NeverLeaks
<1>1. SocketInit => NeverLeaks
  <2>1. SocketInit => Users \in Nat
    BY SocketInitTypeOK, UsersType
  <2>2. QED
    BY <2>1 DEF SocketInit, NeverLeaks
<1>2. SocketTypeOK /\ InitingIsNew /\ NeverLeaks /\ [SocketNext]_socketVars => NeverLeaks'
  <2> SUFFICES ASSUME SocketTypeOK, InitingIsNew, NeverLeaks, [SocketNext]_socketVars
               PROVE  NeverLeaks'
    OBVIOUS
  <2>1. Users \in Nat /\ sockfd_use \in Int
    BY UsersType DEF SocketTypeOK
  <2>2. CASE /\ \E t \in Tables : InitHandle(t)
             /\ sockfd_use' = sockfd_use + 1 /\ Users' = Users + 1
    <3>1. sockfd_use' <= Users'
      BY <2>1, <2>2 DEF NeverLeaks
    <3>2. ASSUME sockfd' PROVE sockfd_use' > 0
      <4>1. sockfd \/ sockfd_use = 0
        BY <2>2, <3>2, Zenon DEF InitHandle
      <4>2. sockfd_use > 0 \/ sockfd_use = 0
        BY <4>1, Zenon DEF NeverLeaks
      <4>3. QED
        BY <2>1, <2>2, <4>2
    <3>3. QED
      BY <3>1, <3>2, Zenon DEF NeverLeaks
  <2>3. CASE GiveBack /\ (Users' = Users - 1 \/ Users' = Users)
    <3>1. sockfd_use' <= Users'
      BY <2>1, <2>3 DEF NeverLeaks, GiveBack
    <3>2. ASSUME sockfd' PROVE sockfd_use' > 0
      <4>1. sockfd_use > 0 /\ sockfd_use # 1
        BY <2>3, <3>2, Zenon DEF GiveBack, NeverLeaks
      <4>2. QED
        BY <2>1, <2>3, <4>1 DEF GiveBack
    <3>3. QED
      BY <3>1, <3>2, Zenon DEF NeverLeaks
  <2>4. CASE UNCHANGED <<sockfd, sockfd_use>> /\ Users' = Users
    BY <2>4 DEF NeverLeaks
  <2>5. QED
    BY <2>2, <2>3, <2>4, UsersFollow DEF Retry
<1>3. QED
  BY <1>1, <1>2, SocketTypeCorrect, PTL DEF SocketSpec

-----------------------------------------------------------------------------
(* Without races.                                                          *)

\* What TC_INIT was told of the table is still true.
ReadIsFresh == read # Null => read = size

\* The inductive invariant: without a race there was no retry.
QuietSocket == ~raced => ReadIsFresh /\ CountsUsers

\* As long as no table has changed while it was read, the count is that of
\* the handles, and the socket is open exactly as long as there is one.
THEOREM CountsCorrect == SocketSpec => []CountsUsers
<1>1. SocketInit => QuietSocket
  <2> SUFFICES ASSUME SocketInit PROVE QuietSocket
    OBVIOUS
  <2>1. Cardinality(live) = 0
    BY FS_EmptySet DEF SocketInit
  <2>2. QED
    BY <2>1 DEF SocketInit, QuietSocket, CountsUsers, ReadIsFresh, Users
<1>2. SocketTypeOK /\ InitingIsNew /\ QuietSocket /\ [SocketNext]_socketVars => QuietSocket'
  <2> SUFFICES ASSUME SocketTypeOK, InitingIsNew, QuietSocket, [SocketNext]_socketVars, ~raced'
               PROVE  ReadIsFresh' /\ CountsUsers'
    BY DEF QuietSocket
  <2> USE SocketAssumption
  <2>1. ~raced
    <3>1. CASE OtherProcess
      BY <3>1, Zenon DEF OtherProcess
    <3>2. CASE ~OtherProcess
      <4>1. raced' = raced
        BY <3>2, Zenon DEF SocketNext, InitHandle, FreeHandle, GetInfo, GetInfoFails,
                           GetEntries, GetEntriesFails, Retry, socketVars
      <4>2. QED
        BY <4>1, Zenon
    <3>3. QED
      BY <3>1, <3>2
  <2>2. ReadIsFresh /\ sockfd_use = Users /\ (sockfd <=> Users > 0)
    BY <2>1, Zenon DEF QuietSocket, CountsUsers
  <2>3. Users \in Nat /\ sockfd_use \in Int
    BY UsersType DEF SocketTypeOK
  <2>4. ~Retry
    BY <2>2 DEF Retry, ReadIsFresh
  <2>5. ReadIsFresh'
    <3>1. CASE GetInfo \/ GetEntries
      BY <3>1 DEF GetInfo, GetEntries, ReadIsFresh
    <3>2. CASE OtherProcess
      <4>1. initing = Null
        BY <3>2, Zenon DEF OtherProcess
      <4>2. QED
        BY <3>2, <4>1 DEF OtherProcess, SocketTypeOK, ReadIsFresh
    <3>3. CASE GetInfoFails \/ GetEntriesFails \/ UNCHANGED socketVars
      BY <2>2, <3>3 DEF GetInfoFails, GetEntriesFails, socketVars, ReadIsFresh
    <3>4. ASSUME NEW t \in Tables, InitHandle(t) \/ FreeHandle(t) PROVE ReadIsFresh'
      BY <2>2, <3>4 DEF InitHandle, FreeHandle, ReadIsFresh
    <3>5. QED
      BY <2>4, <3>1, <3>2, <3>3, <3>4 DEF SocketNext
  <2>6. CountsUsers'
    <3>1. CASE /\ \E t \in Tables : InitHandle(t)
               /\ sockfd_use' = sockfd_use + 1 /\ Users' = Users + 1
      <4>1. sockfd_use' = Users' /\ Users' > 0
        BY <2>2, <2>3, <3>1
      <4>2. sockfd_use = 0 \/ Users > 0
        BY <2>2, <2>3
      <4>3. sockfd'
        BY <2>2, <3>1, <4>2, Zenon DEF InitHandle
      <4>4. QED
        BY <4>1, <4>3, Zenon DEF CountsUsers
    <3>2. CASE GiveBack /\ Users' = Users - 1
      <4>1. sockfd_use' = Users'
        BY <2>2, <2>3, <3>2 DEF GiveBack
      <4>2. Users' > 0 <=> Users > 0 /\ Users # 1
        BY <2>3, <3>2
      <4>3. sockfd' <=> sockfd /\ Users # 1
        BY <2>2, <3>2, Zenon DEF GiveBack
      <4>4. QED
        BY <2>2, <4>1, <4>2, <4>3, Zenon DEF CountsUsers
    <3>3. CASE UNCHANGED <<sockfd, sockfd_use>> /\ Users' = Users
      BY <2>2, <3>3, Zenon DEF CountsUsers
    <3>4. QED
      BY <2>4, <3>1, <3>2, <3>3, UsersFollow
  <2>7. QED
    BY <2>5, <2>6
<1>3. QuietSocket => CountsUsers
  BY DEF QuietSocket, CountsUsers
<1>4. QED
  BY <1>1, <1>2, <1>3, SocketTypeCorrect, PTL DEF SocketSpec
=============================================================================
