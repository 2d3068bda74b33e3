--------------------------- MODULE SequenceLemmas ---------------------------
(* The least and the greatest number of a set; sequences of numbers that      *)
(* never fall or always rise; and what inserting into, removing from,         *)
(* reversing and flattening a sequence does.                                  *)
EXTENDS Integers, Sequences, SequencesExt, SequenceTheorems,
        WellFoundedInduction, TLAPS

\* Every set of natural numbers that is not empty has a least element: a
\* statement about numbers holds if there is no least one it is wrong for.
LEMMA Smallest ==
    ASSUME NEW I, I \subseteq Nat, I # {}
    PROVE  \E x \in I : \A y \in I : x <= y
<1> DEFINE R == OpToRel(<, Nat)
<1>1. IsWellFoundedOn(R, Nat)
  BY NatLessThanWellFounded
<1> HIDE DEF R
<1>2. PICK x \in I : \A y \in I : ~(<<y, x>> \in R)
  BY <1>1, WFMin
<1>3. ASSUME NEW y \in I PROVE x <= y
  <2>1. x \in Nat /\ y \in Nat
    OBVIOUS
  <2>2. y < x => <<y, x>> \in R
    BY <2>1 DEF R, OpToRel
  <2>3. ~(y < x)
    BY <1>2, <2>2
  <2> QED
    BY <2>1, <2>3
<1> QED
  BY <1>3

\* s with e at position p: what was before p stays, the rest moves up.
LEMMA InsertAtProperties ==
    ASSUME NEW S, NEW s \in Seq(S), NEW e \in S, NEW p \in 1..(Len(s) + 1)
    PROVE  /\ InsertAt(s, p, e) \in Seq(S)
           /\ Len(InsertAt(s, p, e)) = Len(s) + 1
           /\ \A i \in 1..(p - 1) : InsertAt(s, p, e)[i] = s[i]
           /\ InsertAt(s, p, e)[p] = e
           /\ \A i \in p..Len(s) : InsertAt(s, p, e)[i + 1] = s[i]
<1> DEFINE a == SubSeq(s, 1, p - 1)
           b == SubSeq(s, p, Len(s))
<1>1. /\ a \in Seq(S)
      /\ Len(a) = p - 1
      /\ \A i \in 1..(p - 1) : a[i] = s[i]
  BY SubSeqProperties
<1>2. /\ b \in Seq(S)
      /\ Len(b) = Len(s) - p + 1
      /\ \A i \in 1..(Len(s) - p + 1) : b[i] = s[p + i - 1]
  BY SubSeqProperties
<1> DEFINE t == a \o <<e>>
<1> HIDE DEF a, b
<1>3. /\ t \in Seq(S)
      /\ Len(t) = p
      /\ \A i \in 1..(p - 1) : t[i] = s[i]
      /\ t[p] = e
  BY <1>1
<1>4. InsertAt(s, p, e) = t \o b
  BY DEF InsertAt, a, b
<1> DEFINE u == t \o b
<1>5. /\ u \in Seq(S)
      /\ Len(u) = Len(t) + Len(b)
      /\ \A i \in 1..(Len(t) + Len(b)) :
            u[i] = IF i <= Len(t) THEN t[i] ELSE b[i - Len(t)]
  <2> HIDE DEF t
  <2>1. QED
    BY <1>2, <1>3, ConcatProperties
<1> HIDE DEF t, u
<1>6. Len(s) \in Nat
  OBVIOUS
<1>7. u \in Seq(S) /\ Len(u) = Len(s) + 1
  BY <1>2, <1>3, <1>5, <1>6
<1>8. ASSUME NEW i \in 1..p
      PROVE  u[i] = t[i]
  <2>1. i \in 1..(Len(t) + Len(b)) /\ i <= Len(t)
    BY <1>2, <1>3, <1>6
  <2>2. QED
    BY <1>5, <2>1
<1>9. ASSUME NEW i \in p..Len(s)
      PROVE  u[i + 1] = s[i]
  <2>1. /\ i + 1 \in 1..(Len(t) + Len(b))
        /\ ~(i + 1 <= Len(t))
        /\ i + 1 - Len(t) \in 1..(Len(s) - p + 1)
        /\ p + (i + 1 - Len(t)) - 1 = i
    BY <1>2, <1>3, <1>6
  <2>2. u[i + 1] = b[i + 1 - Len(t)]
    BY <1>5, <2>1
  <2>3. QED
    BY <1>2, <2>1, <2>2
<1>10. /\ \A i \in 1..(p - 1) : u[i] = s[i]
       /\ u[p] = e
  BY <1>3, <1>6, <1>8
<1>11. QED
  BY <1>4, <1>7, <1>9, <1>10 DEF u

\* s without its k-th element: what was after it moves down.
LEMMA RemoveAtProperties ==
    ASSUME NEW S, NEW s \in Seq(S), NEW k \in 1..Len(s)
    PROVE  /\ RemoveAt(s, k) \in Seq(S)
           /\ Len(RemoveAt(s, k)) = Len(s) - 1
           /\ \A i \in 1..(k - 1) : RemoveAt(s, k)[i] = s[i]
           /\ \A i \in k..(Len(s) - 1) : RemoveAt(s, k)[i] = s[i + 1]
<1> DEFINE a == SubSeq(s, 1, k - 1)
           b == SubSeq(s, k + 1, Len(s))
<1>1. /\ a \in Seq(S)
      /\ Len(a) = k - 1
      /\ \A i \in 1..(k - 1) : a[i] = s[i]
  BY SubSeqProperties
<1>2. /\ b \in Seq(S)
      /\ Len(b) = Len(s) - k
      /\ \A i \in 1..(Len(s) - k) : b[i] = s[k + i]
  BY SubSeqProperties
<1>3. RemoveAt(s, k) = a \o b
  BY DEF RemoveAt
<1> DEFINE u == a \o b
<1> HIDE DEF a, b
<1>4. /\ u \in Seq(S)
      /\ Len(u) = Len(a) + Len(b)
      /\ \A i \in 1..(Len(a) + Len(b)) :
            u[i] = IF i <= Len(a) THEN a[i] ELSE b[i - Len(a)]
  BY <1>1, <1>2, ConcatProperties
<1> HIDE DEF u
<1>5. Len(s) \in Nat
  OBVIOUS
<1>6. u \in Seq(S) /\ Len(u) = Len(s) - 1
  BY <1>1, <1>2, <1>4, <1>5
<1>7. ASSUME NEW i \in 1..(k - 1)
      PROVE  u[i] = s[i]
  <2>1. i \in 1..(Len(a) + Len(b)) /\ i <= Len(a)
    BY <1>1, <1>2, <1>5
  <2>2. QED
    BY <1>1, <1>4, <2>1
<1>8. ASSUME NEW i \in k..(Len(s) - 1)
      PROVE  u[i] = s[i + 1]
  <2>1. /\ i \in 1..(Len(a) + Len(b))
        /\ ~(i <= Len(a))
        /\ i - Len(a) \in 1..(Len(s) - k)
        /\ k + (i - Len(a)) = i + 1
    BY <1>1, <1>2, <1>5
  <2>2. u[i] = b[i - Len(a)]
    BY <1>4, <2>1
  <2>3. QED
    BY <1>2, <2>1, <2>2
<1>9. QED
  BY <1>3, <1>6, <1>7, <1>8 DEF u

\* A reversed sequence has the same elements.
LEMMA ReverseProperties ==
    ASSUME NEW S, NEW s \in Seq(S)
    PROVE  /\ Reverse(s) \in Seq(S)
           /\ Len(Reverse(s)) = Len(s)
           /\ \A i \in 1..Len(s) : Reverse(s)[i] = s[Len(s) - i + 1]
  BY DEF Reverse

\* The first two elements of a sequence, and any two that follow others.
LEMMA TwoMore ==
    ASSUME NEW S, NEW t \in Seq(S), NEW k \in Nat, k + 2 <= Len(t)
    PROVE  /\ SubSeq(t, 1, k) \o <<t[k + 1], t[k + 2]>> = SubSeq(t, 1, k + 2)
           /\ SubSeq(t, 1, 2) = <<t[1], t[2]>>
<1> DEFINE pair == <<t[k + 1], t[k + 2]>>
           front == SubSeq(t, 1, k)
           whole == SubSeq(t, 1, k + 2)
<1>1. pair \in Seq(S) /\ Len(pair) = 2 /\ pair[1] = t[k + 1] /\ pair[2] = t[k + 2]
  OBVIOUS
<1>2. front \in Seq(S) /\ Len(front) = k /\ \A j \in 1..k : front[j] = t[j]
  BY SubSeqProperties
<1>3. whole \in Seq(S) /\ Len(whole) = k + 2 /\ \A j \in 1..(k + 2) : whole[j] = t[j]
  <2>1. 1 \in 1..Len(t) /\ k + 2 \in 0..Len(t)
    OBVIOUS
  <2> QED
    BY <2>1, SubSeqProperties
<1>4. SubSeq(t, 1, 2) = <<t[1], t[2]>>
  <2> DEFINE two == SubSeq(t, 1, 2)
  <2>1. two \in Seq(S) /\ Len(two) = 2 /\ two[1] = t[1] /\ two[2] = t[2]
    BY SubSeqProperties
  <2> HIDE DEF two
  <2>2. two = <<two[1], two[2]>>
    BY <2>1
  <2> QED
    BY <2>1, <2>2 DEF two
<1> DEFINE u == front \o pair
<1> HIDE DEF pair, front, whole
<1>5. /\ u \in Seq(S) /\ Len(u) = Len(front) + Len(pair)
      /\ \A j \in 1..(Len(front) + Len(pair)) :
            u[j] = IF j <= Len(front) THEN front[j] ELSE pair[j - Len(front)]
  <2>1. front \in Seq(S) /\ pair \in Seq(S)
    BY <1>1, <1>2
  <2> QED
    BY <2>1, ConcatProperties
<1> HIDE DEF u
<1>6. ASSUME NEW j \in 1..(k + 2) PROVE u[j] = whole[j]
  <2>1. CASE j <= k
    <3>1. j \in 1..k /\ j \in 1..(Len(front) + Len(pair)) /\ j <= Len(front)
      BY <1>1, <1>2, <2>1
    <3>2. u[j] = front[j]
      BY <1>5, <3>1
    <3> QED
      BY <1>2, <1>3, <3>1, <3>2
  <2>2. CASE j = k + 1
    BY <1>1, <1>2, <1>3, <1>5, <2>2
  <2>3. CASE j = k + 2
    BY <1>1, <1>2, <1>3, <1>5, <2>3
  <2>4. j <= k \/ j = k + 1 \/ j = k + 2
    OBVIOUS
  <2> QED
    BY <2>1, <2>2, <2>3, <2>4
<1>7. u = whole
  <2>1. Len(u) = k + 2
    BY <1>1, <1>2, <1>5
  <2> QED
    BY <1>3, <1>5, <1>6, <2>1, SeqEqual
<1> QED
  BY <1>4, <1>7 DEF pair, front, whole, u

\* Pairs laid end to end are a sequence if they are its elements two by two.
\* The prefixes of the sequence satisfy every equation of the concatenation.
LEMMA FlattenPairs ==
    ASSUME NEW S, NEW t \in Seq(S), NEW pairs \in Seq(Seq(S)),
           Len(t) = 2 * Len(pairs),
           \A j \in 1..Len(pairs) : pairs[j] = <<t[2 * j - 1], t[2 * j]>>
    PROVE  FlattenSeq(pairs) = t
<1> DEFINE n == Len(pairs)
           Turn(f, i) == IF i = 1 THEN pairs[i] ELSE f[i - 1] \o pairs[i]
           f == CHOOSE f : f = [i \in 1..n |-> Turn(f, i)]
           g == [i \in 1..n |-> SubSeq(t, 1, 2 * i)]
<1>1. n \in Nat /\ Len(t) \in Nat
  OBVIOUS
<1>2. CASE n = 0
  BY <1>2 DEF FlattenSeq
<1>3. CASE n # 0
  <2>1. FlattenSeq(pairs) = f[n]
    BY <1>3 DEF FlattenSeq
  <2>2. ASSUME NEW i \in 1..n PROVE Turn(g, i) = g[i]
    <3>1. pairs[i] = <<t[2 * i - 1], t[2 * i]>> /\ 2 * i <= Len(t)
      OBVIOUS
    <3>2. CASE i = 1
      <4>1. SubSeq(t, 1, 2) = <<t[1], t[2]>>
        <5>1. 0 \in Nat /\ 0 + 2 <= Len(t)
          BY <3>1, <3>2
        <5> QED
          BY <5>1, TwoMore
      <4> QED
        BY <3>1, <3>2, <4>1
    <3>3. CASE i # 1
      <4> DEFINE k == 2 * (i - 1)
      <4>1. k \in Nat /\ k + 1 = 2 * i - 1 /\ k + 2 = 2 * i /\ i - 1 \in 1..n
        BY <3>3
      <4> HIDE DEF k
      <4>2. SubSeq(t, 1, k) \o <<t[k + 1], t[k + 2]>> = SubSeq(t, 1, k + 2)
        BY <3>1, <4>1, TwoMore
      <4>3. g[i - 1] = SubSeq(t, 1, k)
        BY <4>1 DEF k
      <4> QED
        BY <3>1, <3>3, <4>1, <4>2, <4>3
    <3> QED
      BY <3>2, <3>3
  <2>3. f = [i \in 1..n |-> Turn(f, i)]
    <3>1. g = [i \in 1..n |-> Turn(g, i)]
      BY <2>2
    <3> HIDE DEF g, Turn, n
    <3> QED
      BY <3>1
  <2>4. \A i \in 1..n : f[i] = g[i]
    <3> SUFFICES ASSUME {i \in 1..n : f[i] # g[i]} # {}
                 PROVE  FALSE
      OBVIOUS
    <3> DEFINE I == {i \in 1..n : f[i] # g[i]}
    <3> HIDE DEF f, g
    <3>0. I \subseteq Nat /\ I # {}
      OBVIOUS
    <3>1. PICK i \in I : \A j \in I : i <= j
      BY <3>0, Smallest
    <3>2. f[i] = Turn(f, i) /\ g[i] = Turn(g, i)
      <4>1. i \in 1..n
        OBVIOUS
      <4>2. f[i] = Turn(f, i)
        <5> HIDE DEF Turn
        <5> QED
          BY <2>3, <4>1
      <4> QED
        BY <2>2, <4>1, <4>2
    <3>3. i # 1 => f[i - 1] = g[i - 1]
      <4> SUFFICES ASSUME i # 1 PROVE i - 1 \notin I /\ i - 1 \in 1..n
        OBVIOUS
      <4> QED
        BY <1>1, <3>1
    <3> QED
      BY <3>2, <3>3
  <2>5. g[n] = t
    <3>1. n \in 1..n /\ SubSeq(t, 1, 2 * n) = t
      <4>1. 2 * n \in 1..Len(t)
        BY <1>1, <1>3
      <4>2. /\ SubSeq(t, 1, 2 * n) \in Seq(S) /\ Len(SubSeq(t, 1, 2 * n)) = 2 * n
            /\ \A j \in 1..(2 * n) : SubSeq(t, 1, 2 * n)[j] = t[j]
        BY <4>1, SubSeqProperties
      <4> QED
        BY <1>1, <1>3, <4>2
    <3> QED
      BY <3>1
  <2> HIDE DEF f, g, n
  <2>6. n \in 1..n
    BY <1>1, <1>3
  <2> QED
    BY <2>1, <2>4, <2>5, <2>6
<1> QED
  BY <1>2, <1>3

\* RemoveFirst removes one place, the first where the element is.
LEMMA FirstRemoved ==
    ASSUME NEW S, NEW q \in Seq(S), NEW e, Contains(q, e)
    PROVE  \E k \in 1..Len(q) :
              /\ q[k] = e /\ RemoveFirst(q, e) = RemoveAt(q, k)
              /\ \A j \in 1..Len(q) : q[j] = e => k <= j
<1> DEFINE I == {i \in 1..Len(q) : q[i] = e}
           first == CHOOSE i \in I : \A j \in I : i =< j
<1>1. I # {}
  BY DEF Contains
<1>2. I \in SUBSET Nat
  OBVIOUS
<1>3. first \in I /\ \A j \in I : first <= j
  BY <1>1, <1>2, Smallest
<1>4. RemoveFirst(q, e) = RemoveAt(q, first)
  BY <1>1 DEF RemoveFirst, SelectInSeq, Min
<1> QED
  BY <1>3, <1>4

\* A sequence no element is in twice stays one when it gets a new element or
\* loses one.
LEMMA AppendedOnce ==
    ASSUME NEW S, NEW q \in Seq(S), NEW e \in S, IsInjective(q), ~Contains(q, e)
    PROVE  /\ Append(q, e) \in Seq(S)
           /\ IsInjective(Append(q, e))
           /\ \A x : Contains(Append(q, e), x) <=> Contains(q, x) \/ x = e
<1> DEFINE new == Append(q, e)
<1>1. /\ new \in Seq(S) /\ Len(new) = Len(q) + 1 /\ Len(q) \in Nat
      /\ \A i \in 1..Len(q) : new[i] = q[i]
      /\ new[Len(q) + 1] = e
  OBVIOUS
<1> HIDE DEF new
<1>2. IsInjective(new)
  BY <1>1 DEF IsInjective, Contains
<1>3. \A x : Contains(new, x) <=> Contains(q, x) \/ x = e
  <2>1. ASSUME NEW x, Contains(q, x) PROVE Contains(new, x)
    BY <1>1, <2>1 DEF Contains
  <2>2. Contains(new, e)
    BY <1>1 DEF Contains
  <2>3. ASSUME NEW x, Contains(new, x), x # e PROVE Contains(q, x)
    BY <1>1, <2>3 DEF Contains
  <2> QED
    BY <2>1, <2>2, <2>3
<1> QED
  BY <1>1, <1>2, <1>3 DEF new

LEMMA RemovedOnce ==
    ASSUME NEW S, NEW q \in Seq(S), NEW e, IsInjective(q), Contains(q, e)
    PROVE  /\ RemoveFirst(q, e) \in Seq(S)
           /\ IsInjective(RemoveFirst(q, e))
           /\ \A x : Contains(RemoveFirst(q, e), x) <=> Contains(q, x) /\ x # e
<1> DEFINE new == RemoveFirst(q, e)
<1>1. PICK k \in 1..Len(q) : q[k] = e /\ new = RemoveAt(q, k)
  BY FirstRemoved
<1> HIDE DEF new
<1>2. /\ new \in Seq(S) /\ Len(new) = Len(q) - 1 /\ Len(q) \in Nat
      /\ \A i \in 1..(k - 1) : new[i] = q[i]
      /\ \A i \in k..(Len(q) - 1) : new[i] = q[i + 1]
  <2>1. /\ RemoveAt(q, k) \in Seq(S) /\ Len(RemoveAt(q, k)) = Len(q) - 1
        /\ \A i \in 1..(k - 1) : RemoveAt(q, k)[i] = q[i]
        /\ \A i \in k..(Len(q) - 1) : RemoveAt(q, k)[i] = q[i + 1]
    BY RemoveAtProperties
  <2>2. Len(q) \in Nat
    OBVIOUS
  <2> QED
    BY <1>1, <2>1, <2>2
<1> DEFINE From(i) == IF i < k THEN i ELSE i + 1
<1>3. ASSUME NEW i \in 1..Len(new)
      PROVE  From(i) \in 1..Len(q) /\ From(i) # k /\ new[i] = q[From(i)]
  BY <1>1, <1>2
<1>4. \A i, j \in 1..Len(new) : From(i) = From(j) => i = j
  BY <1>2
<1>5. \A i \in 1..Len(q) : i # k => \E j \in 1..Len(new) : From(j) = i
  <2> SUFFICES ASSUME NEW i \in 1..Len(q), i # k
               PROVE  \E j \in 1..Len(new) : From(j) = i
    OBVIOUS
  <2>1. CASE i < k
    <3>1. i \in 1..Len(new) /\ From(i) = i
      BY <1>2, <2>1
    <3> QED
      BY <3>1
  <2>2. CASE i > k
    <3>1. i - 1 \in 1..Len(new) /\ From(i - 1) = i
      BY <1>2, <2>2
    <3> QED
      BY <3>1
  <2> QED
    BY <2>1, <2>2
<1> HIDE DEF From
<1>6. IsInjective(new)
  BY <1>3, <1>4 DEF IsInjective
<1>7. ASSUME NEW x, Contains(new, x) PROVE Contains(q, x) /\ x # e
  <2>1. PICK i \in 1..Len(new) : new[i] = x
    BY <1>7 DEF Contains
  <2>2. x = q[From(i)] /\ From(i) \in 1..Len(q) /\ From(i) # k
    BY <1>3, <2>1
  <2> QED
    BY <1>1, <2>2 DEF IsInjective, Contains
<1>8. ASSUME NEW x, Contains(q, x), x # e PROVE Contains(new, x)
  <2>1. PICK i \in 1..Len(q) : q[i] = x /\ i # k
    BY <1>1, <1>8 DEF Contains
  <2>2. PICK j \in 1..Len(new) : From(j) = i
    BY <1>5, <2>1
  <2> QED
    BY <1>3, <2>1, <2>2 DEF Contains
<1> QED
  BY <1>2, <1>6, <1>7, <1>8 DEF new

-----------------------------------------------------------------------------
(* Folds.                                                                  *)

\* A set of some of the first numbers has a greatest element.
LEMMA Greatest ==
    ASSUME NEW n \in Nat, NEW s \in SUBSET (1..n), s # {}
    PROVE  Max(s) \in s /\ \A y \in s : Max(s) >= y
<1> DEFINE I == {n - x : x \in s}
<1>1. I \subseteq Nat /\ I # {}
  <2>1. PICK x : x \in s
    OBVIOUS
  <2>2. n - x \in I
    BY <2>1
  <2>3. \A y \in s : n - y \in Nat
    OBVIOUS
  <2> QED
    BY <2>2, <2>3
<1>2. PICK least \in I : \A i \in I : least <= i
  <2> HIDE DEF I
  <2> QED
    BY <1>1, Smallest
<1>3. PICK x \in s : least = n - x
  BY <1>2
<1>4. \A y \in s : x >= y
  <2>1. \A y \in s : n - x <= n - y
    BY <1>2, <1>3
  <2> QED
    BY <1>3, <2>1
<1> QED
  BY <1>3, <1>4 DEF Max

LEMMA OneMore ==
    ASSUME NEW k \in Nat, NEW s \in SUBSET (1..k)
    PROVE  Max(s \cup {k + 1}) = k + 1
<1> DEFINE t == s \cup {k + 1}
<1>1. k + 1 \in Nat /\ t \in SUBSET (1..(k + 1)) /\ t # {} /\ k + 1 \in t
  OBVIOUS
<1>2. \A x \in t : x >= k + 1 => x = k + 1
  OBVIOUS
<1> HIDE DEF t
<1>3. Max(t) \in t /\ \A y \in t : Max(t) >= y
  BY <1>1, Greatest
<1>4. Max(t) = k + 1
  BY <1>1, <1>2, <1>3
<1> QED
  BY <1>4 DEF t

\* The function inside FoldLeft, which takes the elements off from the last
\* one on.
Folding(g, n, A, base, step) ==
    /\ g \in [SUBSET (1..n) -> A]
    /\ g[{}] = base
    /\ \A s \in SUBSET (1..n) :
          s # {} => /\ <<Max(s), g[s \ {Max(s)}]>> \in (1..n) \X A
                    /\ g[s] = step[<<Max(s), g[s \ {Max(s)}]>>]

\* There is one, whatever is folded with, if its results stay in a set.
LEMMA FoldExists ==
    ASSUME NEW A, NEW base \in A, NEW n \in Nat, NEW step \in [(1..n) \X A -> A]
    PROVE  \E g : Folding(g, n, A, base, step)
<1> DEFINE Turn(g, s) == IF s = {} THEN base ELSE step[<<Max(s), g[s \ {Max(s)}]>>]
           P(k, g) == g \in [SUBSET (1..k) -> A] /\ \A s \in SUBSET (1..k) : g[s] = Turn(g, s)
           Without == {k \in 0..n : \A g : ~P(k, g)}
<1>1. Without = {}
  <2> SUFFICES ASSUME Without # {} PROVE FALSE
    OBVIOUS
  <2>1. Without \subseteq Nat
    <3> HIDE DEF P
    <3> QED
      OBVIOUS
  <2>2. PICK k \in Without : \A j \in Without : k <= j
    BY <2>1, Smallest
  <2>3. CASE k = 0
    <3> DEFINE g == [s \in SUBSET (1..0) |-> base]
    <3>1. SUBSET (1..0) = {{}}
      OBVIOUS
    <3>2. P(0, g)
      BY <3>1
    <3> QED
      BY <2>3, <3>2
  <2>4. CASE k # 0
    <3> DEFINE j == k - 1
    <3>1. j \in Nat /\ j \in 0..n /\ j + 1 = k /\ j \notin Without /\ k \in 1..n
      <4> HIDE DEF P
      <4>1. k \in 0..n
        BY <2>2
      <4>2. j \notin Without
        <5>1. ~(k <= j)
          BY <4>1
        <5> HIDE DEF j, Without
        <5> QED
          BY <5>1, <2>2
      <4> QED
        BY <2>4, <4>1, <4>2
    <3> HIDE DEF j
    <3>2. PICK f : P(j, f)
      BY <3>1
    <3> DEFINE g == [s \in SUBSET (1..k) |->
                        IF k \in s THEN step[<<k, f[s \ {k}]>>] ELSE f[s]]
    <3>3. ASSUME NEW s \in SUBSET (1..k)
          PROVE  /\ s \ {k} \in SUBSET (1..j)
                 /\ k \notin s => s \in SUBSET (1..j)
                 /\ k \in s => Max(s) = k
      <4>1. s \ {k} \in SUBSET (1..j)
        BY <3>1
      <4>2. Max((s \ {k}) \cup {j + 1}) = j + 1
        <5> DEFINE t == s \ {k}
        <5>1. t \in SUBSET (1..j) /\ j \in Nat
          BY <3>1, <4>1
        <5> HIDE DEF t
        <5>2. Max(t \cup {j + 1}) = j + 1
          BY <5>1, OneMore
        <5> QED
          BY <5>2 DEF t
      <4>3. k \in s => (s \ {k}) \cup {j + 1} = s
        BY <3>1
      <4>4. k \in s => Max(s) = k
        BY <3>1, <4>2, <4>3
      <4> QED
        BY <3>1, <4>1, <4>4
    <3>4. g \in [SUBSET (1..k) -> A]
      <4>1. ASSUME NEW s \in SUBSET (1..k) PROVE g[s] \in A
        <5>1. CASE k \in s
          <6>1. f[s \ {k}] \in A /\ <<k, f[s \ {k}]>> \in (1..n) \X A
            BY <3>1, <3>2, <3>3
          <6> QED
            BY <5>1, <6>1
        <5>2. CASE k \notin s
          BY <3>2, <3>3, <5>2
        <5> QED
          BY <5>1, <5>2
      <4> QED
        BY <4>1
    <3>5. ASSUME NEW s \in SUBSET (1..k) PROVE g[s] = Turn(g, s)
      <4>1. CASE k \in s
        <5>1. s \ {k} \in SUBSET (1..k) /\ s # {} /\ Max(s) = k
          BY <3>3, <4>1
        <5>2. g[s \ {k}] = f[s \ {k}]
          BY <5>1
        <5> QED
          BY <4>1, <5>1, <5>2
      <4>2. CASE k \notin s /\ s # {}
        <5>1. g[s] = f[s] /\ f[s] = step[<<Max(s), f[s \ {Max(s)}]>>]
          BY <3>2, <3>3, <4>2
        <5>2. s \ {Max(s)} \in SUBSET (1..k) /\ k \notin s \ {Max(s)}
          BY <4>2
        <5>3. g[s \ {Max(s)}] = f[s \ {Max(s)}]
          BY <5>2
        <5> QED
          BY <4>2, <5>1, <5>3
      <4>3. CASE s = {}
        <5>1. k \notin s /\ s \in SUBSET (1..j)
          BY <4>3
        <5>2. f[s] = base
          BY <3>2, <4>3, <5>1
        <5> QED
          BY <4>3, <5>1, <5>2
      <4> QED
        BY <4>1, <4>2, <4>3
    <3>6. P(k, g)
      BY <3>4, <3>5
    <3> HIDE DEF P, g
    <3> QED
      BY <3>6
  <2> QED
    BY <2>3, <2>4
<1>2. PICK g : P(n, g)
  <2> HIDE DEF P
  <2>1. n \in 0..n
    OBVIOUS
  <2> QED
    BY <1>1, <2>1
<1>3. ASSUME NEW s \in SUBSET (1..n), s # {} PROVE <<Max(s), g[s \ {Max(s)}]>> \in (1..n) \X A
  <2>1. Max(s) \in s
    BY <1>3, Greatest
  <2> QED
    BY <1>2, <2>1
<1>4. g[{}] = base
  BY <1>2
<1> QED
  BY <1>2, <1>3, <1>4 DEF Folding

\* On the first numbers the function goes back one number at a time.
LEMMA FirstNumbers ==
    ASSUME NEW i \in Nat, i # 0
    PROVE  1..i # {} /\ Max(1..i) = i /\ (1..i) \ {i} = 1..(i - 1)
<1> DEFINE j == i - 1
<1>1. j \in Nat /\ j + 1 = i /\ 1..j \in SUBSET (1..j)
  OBVIOUS
<1>2. (1..j) \cup {j + 1} = 1..i /\ (1..i) \ {i} = 1..j
  BY <1>1
<1> HIDE DEF j
<1>3. Max((1..j) \cup {j + 1}) = j + 1
  BY <1>1, OneMore
<1> QED
  BY <1>1, <1>2, <1>3 DEF j

\* What is true of a number whenever it is true of those before it is true of
\* all of them.
LEMMA Upwards ==
    ASSUME NEW m \in Nat, NEW n \in Nat, NEW G,
           \A i \in m..n : m..(i - 1) \subseteq G => i \in G
    PROVE  \A i \in m..n : i \in G
<1> DEFINE I == (m..n) \ G
<1> SUFFICES ASSUME I # {} PROVE FALSE
  OBVIOUS
<1>1. PICK i \in I : \A k \in I : i <= k
  <2>1. I \subseteq Nat
    OBVIOUS
  <2> QED
    BY <2>1, Smallest
<1>2. m..(i - 1) \subseteq G
  BY <1>1
<1> QED
  BY <1>2

\* Numbers that never go down from one to the next never go down.
LEMMA NeverDown ==
    ASSUME NEW n \in Nat, NEW B \in [0..n -> Nat], \A k \in 1..n : B[k - 1] <= B[k]
    PROVE  \A i, j \in 0..n : i <= j => B[i] <= B[j]
<1> SUFFICES ASSUME NEW i \in 0..n PROVE \A j \in i..n : B[i] <= B[j]
  OBVIOUS
<1> DEFINE G == {j \in i..n : B[i] <= B[j]}
<1>1. ASSUME NEW j \in i..n, i..(j - 1) \subseteq G PROVE j \in G
  <2>1. CASE j = i
    BY <2>1
  <2>2. CASE j # i
    <3>1. j - 1 \in i..(j - 1) /\ j \in 1..n /\ j - 1 \in 0..n /\ j \in 0..n
      BY <2>2
    <3>2. B[i] <= B[j - 1] /\ B[j - 1] <= B[j]
      BY <1>1, <3>1
    <3>3. B[i] \in Nat /\ B[j - 1] \in Nat /\ B[j] \in Nat
      BY <3>1
    <3>4. B[i] <= B[j]
      BY <3>2, <3>3
    <3> QED
      BY <3>4
  <2> QED
    BY <2>1, <2>2
<1> HIDE DEF G
<1>2. \A j \in i..n : j \in G
  <2>1. i \in Nat
    OBVIOUS
  <2> QED
    BY <1>1, <2>1, Upwards
<1> QED
  BY <1>2 DEF G

\* What lies between the first and the last of them lies between two neighbours.
LEMMA BetweenNeighbours ==
    ASSUME NEW n \in Nat, NEW B \in [0..n -> Nat], NEW x \in Nat, B[0] < x, x <= B[n]
    PROVE  \E k \in 1..n : B[k - 1] < x /\ x <= B[k]
<1> DEFINE G == {k \in 0..n : B[k] < x}
<1> SUFFICES ASSUME \A k \in 1..n : ~(B[k - 1] < x /\ x <= B[k]) PROVE FALSE
  OBVIOUS
<1>1. ASSUME NEW k \in 0..n, 0..(k - 1) \subseteq G PROVE k \in G
  <2>1. CASE k = 0
    BY <2>1
  <2>2. CASE k # 0
    <3>1. k \in 1..n /\ k - 1 \in 0..(k - 1)
      BY <2>2
    <3>2. B[k - 1] < x /\ B[k] \in Nat
      BY <1>1, <3>1
    <3> QED
      BY <3>1, <3>2
  <2> QED
    BY <2>1, <2>2
<1> HIDE DEF G
<1>2. n \in G
  <2>1. 0 \in Nat /\ n \in 0..n
    OBVIOUS
  <2> QED
    BY <1>1, <2>1, Upwards
<1> QED
  BY <1>2 DEF G

\* One sequence after another.
LEMMA Joined ==
    ASSUME NEW S, NEW a \in Seq(S), NEW b \in Seq(S)
    PROVE  /\ a \o b \in Seq(S) /\ Len(a \o b) = Len(a) + Len(b)
           /\ \A i \in 1..Len(a) : (a \o b)[i] = a[i]
           /\ \A i \in 1..Len(b) : (a \o b)[Len(a) + i] = b[i]
<1>1. /\ a \o b \in Seq(S) /\ Len(a \o b) = Len(a) + Len(b)
      /\ \A i \in 1..(Len(a) + Len(b)) : (a \o b)[i] = IF i <= Len(a) THEN a[i] ELSE b[i - Len(a)]
  BY ConcatProperties
<1>2. Len(a) \in Nat /\ Len(b) \in Nat
  OBVIOUS
<1>3. \A i \in 1..Len(a) : (a \o b)[i] = a[i]
  BY <1>1, <1>2
<1>4. ASSUME NEW i \in 1..Len(b) PROVE (a \o b)[Len(a) + i] = b[i]
  <2>1. Len(a) + i \in 1..(Len(a) + Len(b)) /\ ~(Len(a) + i <= Len(a)) /\ Len(a) + i - Len(a) = i
    BY <1>2
  <2> QED
    BY <1>1, <2>1
<1> QED
  BY <1>1, <1>3, <1>4

\* Sequences that are put one after the other lie in places of their own; B
\* says where each ends.
Places(P, q, B) ==
    /\ B \in [0..Len(P) -> Nat]
    /\ B[0] = 0
    /\ \A k \in 1..Len(P) : B[k] = B[k - 1] + Len(P[k])
    /\ Len(q) = B[Len(P)]
    /\ \A k \in 1..Len(P) : \A j \in 1..Len(P[k]) : q[B[k - 1] + j] = P[k][j]

\* The recursive function inside FlattenSeq.
LEMMA FlattenSteps ==
    ASSUME NEW S, NEW P \in Seq(Seq(S)), P # <<>>
    PROVE  \E f \in [1..Len(P) -> Seq(S)] :
              /\ FlattenSeq(P) = f[Len(P)]
              /\ f[1] = P[1]
              /\ \A i \in 2..Len(P) : f[i] = f[i - 1] \o P[i]
<1> DEFINE n == Len(P)
           Turn(f, i) == IF i = 1 THEN P[i] ELSE f[i - 1] \o P[i]
           f == CHOOSE f : f = [i \in 1..n |-> Turn(f, i)]
           Follows(g, m) == g \in [1..m -> Seq(S)] /\ \A i \in 1..m : g[i] = Turn(g, i)
<1>1. n \in Nat \ {0} /\ \A i \in 1..n : P[i] \in Seq(S)
  OBVIOUS
<1> DEFINE Reached == {m \in 0..n : \E g : Follows(g, m)}
<1>2. ASSUME NEW m \in 0..n, 0..(m - 1) \subseteq Reached PROVE \E g : Follows(g, m)
  <2>1. CASE m = 0
    <3>1. Follows(<<>>, 0)
      OBVIOUS
    <3> HIDE DEF Follows
    <3> QED
      BY <2>1, <3>1
  <2>2. CASE m # 0
    <3>1. m - 1 \in 0..(m - 1) /\ m - 1 \in 0..n /\ m \in 1..n /\ m \in Nat
      BY <1>1, <2>2
    <3>2. \E g : Follows(g, m - 1)
      <4> HIDE DEF Follows
      <4> QED
        BY <1>2, <3>1
    <3> HIDE DEF n, Reached
    <3>3. PICK g : Follows(g, m - 1)
      BY <3>2
    <3> DEFINE h == [i \in 1..m |-> IF i = m THEN Turn(g, m) ELSE g[i]]
    <3>4. ASSUME NEW i \in 1..m PROVE h[i] \in Seq(S) /\ h[i] = Turn(h, i)
      <4>1. CASE i = m
        <5>1. h[i] = Turn(g, m) /\ (i # 1 => i - 1 \in 1..(m - 1) /\ h[i - 1] = g[i - 1])
          BY <3>1, <4>1
        <5>2. Turn(g, m) \in Seq(S)
          BY <1>1, <3>1, <3>3, <4>1, <5>1
        <5> QED
          BY <4>1, <5>1, <5>2
      <4>2. CASE i # m
        <5>1. i \in 1..(m - 1) /\ h[i] = g[i] /\ (i # 1 => h[i - 1] = g[i - 1])
          BY <3>1, <4>2
        <5> QED
          BY <3>3, <5>1
      <4> QED
        BY <4>1, <4>2
    <3>5. Follows(h, m)
      <4> HIDE DEF h, Turn
      <4>1. h \in [1..m -> Seq(S)]
        <5>1. h = [i \in 1..m |-> h[i]]
          BY DEF h
        <5> QED
          BY <3>4, <5>1
      <4> QED
        BY <3>4, <4>1
    <3> HIDE DEF Follows, h
    <3> QED
      BY <3>5
  <2> QED
    BY <2>1, <2>2
<1>3. PICK g : Follows(g, n)
  <2> HIDE DEF Follows, n
  <2>1. \A m \in 0..n : m \in Reached
    <3>1. \A m \in 0..n : 0..(m - 1) \subseteq Reached => m \in Reached
      BY <1>2
    <3>2. 0 \in Nat /\ n \in Nat
      BY <1>1
    <3> HIDE DEF Reached
    <3> QED
      BY <3>1, <3>2, Upwards
  <2>2. n \in Reached
    <3> HIDE DEF Reached
    <3>1. n \in 0..n
      BY <1>1
    <3> QED
      BY <2>1, <3>1
  <2> QED
    BY <2>2
<1>4. g = [i \in 1..n |-> Turn(g, i)]
  <2> HIDE DEF Turn, n
  <2> QED
    BY <1>3
<1>5. f = [i \in 1..n |-> Turn(f, i)]
  <2> HIDE DEF Turn, n
  <2> QED
    BY <1>4
<1>6. FlattenSeq(P) = f[n]
  BY DEF FlattenSeq
<1> HIDE DEF f, n
<1>7. \A i \in 1..n : f[i] = Turn(f, i)
  <2> HIDE DEF Turn
  <2> QED
    BY <1>5
<1>8. \A i \in 1..n : f[i] = g[i]
  <2> DEFINE G == {i \in 1..n : f[i] = g[i]}
  <2>1. ASSUME NEW i \in 1..n, 1..(i - 1) \subseteq G PROVE i \in G
    <3>1. i # 1 => i - 1 \in 1..(i - 1)
      BY <1>1
    <3>2. i # 1 => f[i - 1] = g[i - 1]
      BY <2>1, <3>1
    <3>3. Turn(f, i) = Turn(g, i)
      BY <3>2
    <3> HIDE DEF Turn
    <3>4. g[i] = Turn(g, i) /\ f[i] = Turn(f, i)
      BY <1>3, <1>7
    <3> QED
      BY <3>3, <3>4
  <2> HIDE DEF G
  <2>2. \A i \in 1..n : i \in G
    <3>1. 1 \in Nat /\ n \in Nat
      BY <1>1
    <3> QED
      BY <2>1, <3>1, Upwards
  <2> QED
    BY <2>2 DEF G
<1>9. f = g
  <2> HIDE DEF Turn
  <2>1. DOMAIN f = 1..n /\ f = [i \in 1..n |-> f[i]]
    BY <1>5
  <2>2. g = [i \in 1..n |-> g[i]]
    BY <1>3
  <2>3. [i \in 1..n |-> f[i]] = [i \in 1..n |-> g[i]]
    BY <1>8
  <2> QED
    BY <2>1, <2>2, <2>3
<1>10. f[1] = P[1] /\ \A i \in 2..n : f[i] = f[i - 1] \o P[i]
  <2>1. 1 \in 1..n /\ f[1] = Turn(f, 1)
    <3> HIDE DEF Turn
    <3> QED
      BY <1>1, <1>7
  <2>2. ASSUME NEW i \in 2..n PROVE f[i] = f[i - 1] \o P[i]
    <3>1. i \in 1..n /\ i # 1
      BY <1>1
    <3>2. f[i] = Turn(f, i)
      <4> HIDE DEF Turn
      <4> QED
        BY <1>7, <3>1
    <3> QED
      BY <3>1, <3>2
  <2> QED
    BY <2>1, <2>2
<1> QED
  BY <1>3, <1>6, <1>9, <1>10 DEF n

\* Where the parts lie in what has been put together of them.
LEMMA PlacesSteps ==
    ASSUME NEW S, NEW P \in Seq(Seq(S)), NEW n \in Nat, n = Len(P), n # 0,
           NEW f \in [1..n -> Seq(S)], f[1] = P[1],
           \A i \in 2..n : f[i] = f[i - 1] \o P[i]
    PROVE  \E B : Places(P, f[n], B)
<1> DEFINE B == [i \in 0..n |-> IF i = 0 THEN 0 ELSE Len(f[i])]
<1>1. \A i \in 1..n : P[i] \in Seq(S) /\ f[i] \in Seq(S) /\ Len(P[i]) \in Nat /\ Len(f[i]) \in Nat
  OBVIOUS
<1>2. B \in [0..n -> Nat] /\ B[0] = 0 /\ \A i \in 1..n : B[i] = Len(f[i])
  BY <1>1
<1> HIDE DEF B
<1>3. \A i \in 2..n :
         /\ Len(f[i]) = Len(f[i - 1]) + Len(P[i])
         /\ \A j \in 1..Len(f[i - 1]) : f[i][j] = f[i - 1][j]
         /\ \A j \in 1..Len(P[i]) : f[i][Len(f[i - 1]) + j] = P[i][j]
  <2> SUFFICES ASSUME NEW i \in 2..n
               PROVE  /\ Len(f[i]) = Len(f[i - 1]) + Len(P[i])
                      /\ \A j \in 1..Len(f[i - 1]) : f[i][j] = f[i - 1][j]
                      /\ \A j \in 1..Len(P[i]) : f[i][Len(f[i - 1]) + j] = P[i][j]
    OBVIOUS
  <2> DEFINE a == f[i - 1]
             b == P[i]
  <2>1. a \in Seq(S) /\ b \in Seq(S) /\ f[i] = a \o b
    <3>1. i - 1 \in 1..n /\ i \in 1..n
      OBVIOUS
    <3> QED
      BY <1>1, <3>1
  <2> HIDE DEF a, b
  <2>2. /\ Len(a \o b) = Len(a) + Len(b)
        /\ \A j \in 1..Len(a) : (a \o b)[j] = a[j]
        /\ \A j \in 1..Len(b) : (a \o b)[Len(a) + j] = b[j]
    BY <2>1, Joined
  <2> QED
    BY <2>1, <2>2 DEF a, b
<1>4. \A i \in 1..n : B[i] = B[i - 1] + Len(P[i])
  <2> SUFFICES ASSUME NEW i \in 1..n PROVE B[i] = B[i - 1] + Len(P[i])
    OBVIOUS
  <2>1. CASE i = 1
    BY <1>1, <1>2, <2>1
  <2>2. CASE i # 1
    <3>1. i \in 2..n /\ i - 1 \in 1..n
      BY <2>2
    <3> QED
      BY <1>2, <1>3, <3>1
  <2> QED
    BY <2>1, <2>2
<1>5. \A i, j \in 0..n : i <= j => B[i] <= B[j]
  <2>1. ASSUME NEW k \in 1..n PROVE B[k - 1] <= B[k]
    <3>1. B[k - 1] \in Nat /\ Len(P[k]) \in Nat
      BY <1>1, <1>2
    <3> QED
      BY <1>4, <3>1
  <2> QED
    BY <1>2, <2>1, NeverDown
<1> DEFINE Fits(i) == \A k \in 1..i : \A j \in 1..Len(P[k]) : f[i][B[k - 1] + j] = P[k][j]
<1>6. ASSUME NEW i \in 1..n, i = 1 \/ (i - 1 \in 1..n /\ Fits(i - 1)) PROVE Fits(i)
  <2>1. CASE i = 1
    BY <1>2, <2>1
  <2>2. CASE i # 1
    <3> SUFFICES ASSUME NEW k \in 1..i, NEW j \in 1..Len(P[k])
                 PROVE  f[i][B[k - 1] + j] = P[k][j]
      OBVIOUS
    <3>0. i \in 2..n /\ i - 1 \in 1..n /\ Fits(i - 1)
      <4> HIDE DEF Fits
      <4> QED
        BY <1>6, <2>2
    <3>1. CASE k = i
      <4>1. B[k - 1] = Len(f[i - 1])
        BY <1>2, <3>0, <3>1
      <4> HIDE DEF Fits
      <4>2. j \in 1..Len(P[i])
        BY <3>1
      <4>3. f[i][Len(f[i - 1]) + j] = P[i][j]
        BY <1>3, <3>0, <4>2
      <4> QED
        BY <3>1, <4>1, <4>3
    <3>2. CASE k # i
      <4>1. k \in 1..(i - 1) /\ k \in 1..n /\ k - 1 \in 0..n /\ k \in 0..n /\ i - 1 \in 0..n
            /\ k <= i - 1
        <5> HIDE DEF Fits
        <5> QED
          BY <3>0, <3>2
      <4>2. f[i - 1][B[k - 1] + j] = P[k][j]
        BY <3>0, <4>1
      <4> HIDE DEF Fits
      <4>3. B[k] <= B[i - 1] /\ B[k] = B[k - 1] + Len(P[k])
        BY <1>4, <1>5, <4>1
      <4>4. B[k - 1] \in Nat /\ Len(P[k]) \in Nat /\ B[i - 1] \in Nat
        BY <1>1, <1>2, <4>1
      <4>5. B[i - 1] = Len(f[i - 1])
        BY <1>2, <3>0
      <4>6. B[k - 1] + j \in 1..Len(f[i - 1])
        <5> DEFINE x == B[k - 1]
                   y == B[k]
                   z == B[i - 1]
                   l == Len(P[k])
        <5>1. y <= z /\ y = x + l /\ x \in Nat /\ l \in Nat /\ z \in Nat /\ j \in 1..l
          BY <4>3, <4>4
        <5> HIDE DEF x, y, z, l
        <5>2. x + j \in 1..z
          BY <5>1
        <5> QED
          BY <4>5, <5>2 DEF x, z
      <4> QED
        BY <1>3, <3>0, <4>2, <4>6
    <3> QED
      BY <3>1, <3>2
  <2> QED
    BY <2>1, <2>2
<1>7. Fits(n)
  <2> DEFINE G == {i \in 1..n : Fits(i)}
  <2> HIDE DEF Fits
  <2>1. ASSUME NEW i \in 1..n, 1..(i - 1) \subseteq G PROVE i \in G
    <3>1. i = 1 \/ i - 1 \in 1..(i - 1)
      OBVIOUS
    <3>2. i = 1 \/ (i - 1 \in 1..n /\ Fits(i - 1))
      BY <2>1, <3>1
    <3> QED
      BY <1>6, <3>2
  <2> HIDE DEF G
  <2>2. \A i \in 1..n : i \in G
    BY <2>1, Upwards
  <2>3. n \in G
    BY <2>2
  <2> QED
    BY <2>3 DEF G
<1>8. Places(P, f[n], B)
  BY <1>2, <1>4, <1>7 DEF Places
<1> QED
  BY <1>8

\* Flattening a sequence of sequences gives a sequence, in which every part has
\* its place.
LEMMA FlattenParts ==
    ASSUME NEW S, NEW P \in Seq(Seq(S))
    PROVE  /\ FlattenSeq(P) \in Seq(S)
           /\ \E B : Places(P, FlattenSeq(P), B)
<1>1. CASE P = <<>>
  <2>1. FlattenSeq(P) = <<>> /\ Len(P) = 0
    BY <1>1 DEF FlattenSeq
  <2>2. Places(P, <<>>, [i \in {0} |-> 0])
    <3>1. 0..Len(P) = {0} /\ 1..Len(P) = {}
      BY <2>1
    <3> QED
      BY <2>1, <3>1 DEF Places
  <2> QED
    BY <2>1, <2>2
<1>2. CASE P # <<>>
  <2>1. Len(P) \in Nat /\ Len(P) # 0
    BY <1>2
  <2>2. PICK f \in [1..Len(P) -> Seq(S)] :
              /\ FlattenSeq(P) = f[Len(P)]
              /\ f[1] = P[1]
              /\ \A i \in 2..Len(P) : f[i] = f[i - 1] \o P[i]
    BY <1>2, FlattenSteps
  <2>3. \E B : Places(P, f[Len(P)], B)
    BY <2>1, <2>2, PlacesSteps
  <2>4. FlattenSeq(P) \in Seq(S)
    <3>1. Len(P) \in 1..Len(P)
      BY <2>1
    <3> QED
      BY <2>2, <3>1
  <2> QED
    BY <2>2, <2>3, <2>4
<1> QED
  BY <1>1, <1>2

=============================================================================
