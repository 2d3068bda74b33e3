-------------------------- MODULE ChainIndexProofs --------------------------
(***************************************************************************)
(* Theorems about ChainIndex, for any names, buckets and number of chains. *)
(***************************************************************************)
EXTENDS ChainIndex, SequenceLemmas, FiniteSetTheorems

Ascending(list, names) ==
    \A i, j \in DOMAIN list : i < j => names[list[i]] < names[list[j]]

\* No chain is in the list twice, whatever was renamed.
OnceEach == \A i, j \in DOMAIN chains : i # j => chains[i] # chains[j]

\* Until a chain is renamed or an iteration begun, the list is sorted and the
\* index points to some of its chains, in order, the first among them; or
\* nothing but the head of the list is in the index.
Indexed ==
    /\ index \in Seq(Listed)
    /\ Ascending(index, name)
    /\ index # <<>> => chains # <<>> /\ index[1] = chains[1]

Undisturbed ==
    /\ chain_iterator_cur = NULL
    /\ Ascending(chains, name)
    /\ Indexed \/ index = <<ListHead>>

Inv ==
    /\ TypeOK
    /\ OnceEach
    /\ IteratorIsLive
    /\ disturbances = 0 => Undisturbed

-----------------------------------------------------------------------------
(* Searching the index.                                                    *)

\* b is the last place in the index whose chain is not beyond the key, or the
\* first place.
LastNotBeyond(b, key, cur) ==
    /\ b \in 0..(Len(index) - 1)
    /\ \A p \in 0..(Len(index) - 1) : p > b => NameOf(index[p + 1], cur) > key
    /\ b # 0 => NameOf(index[b + 1], cur) <= key

\* What the searches need of an index.
Searchable(cur) ==
    /\ index \in Seq(Objects \cup {ListHead})
    /\ index # <<>>
    /\ \A p \in DOMAIN index : NameOf(index[p], cur) \in Nat
    /\ \A p, q \in DOMAIN index : p < q => NameOf(index[p], cur) < NameOf(index[q], cur)

LEMMA PlaceExists ==
    ASSUME NEW key \in Nat, NEW cur, Searchable(cur)
    PROVE  \E b : LastNotBeyond(b, key, cur)
<1> DEFINE sz == Len(index)
           At(p) == NameOf(index[p + 1], cur)
           I == {p \in 0..(sz - 1) : At(p) > key}
<1>1. sz \in Nat \ {0} /\ \A p \in 0..(sz - 1) : p + 1 \in DOMAIN index
  BY DEF Searchable
<1>2. ASSUME NEW p \in 0..(sz - 1) PROVE At(p) \in Nat
  <2>1. p + 1 \in DOMAIN index
    BY <1>1
  <2> QED
    BY <2>1 DEF Searchable
<1>3. CASE I = {}
  <2> HIDE DEF At
  <2>1. /\ sz - 1 \in 0..(sz - 1)
        /\ \A p \in 0..(sz - 1) : ~(p > sz - 1) /\ At(p) <= key
    BY <1>1, <1>2, <1>3
  <2> QED
    BY <2>1 DEF LastNotBeyond, At
<1>4. CASE I # {}
  <2> HIDE DEF At
  <2>1. I \subseteq Nat
    OBVIOUS
  <2>2. PICK x \in I : \A y \in I : x <= y
    BY <1>4, <2>1, Smallest
  <2>3. \A p \in 0..(sz - 1) : p >= x => At(p) > key
    <3> SUFFICES ASSUME NEW p \in 0..(sz - 1), p > x
                 PROVE  At(p) > key
      BY <2>2
    <3>1. /\ x + 1 \in DOMAIN index /\ p + 1 \in DOMAIN index /\ x + 1 < p + 1
          /\ At(x) \in Nat /\ At(p) \in Nat /\ At(x) > key
      BY <1>1, <1>2, <2>2
    <3>2. At(x) < At(p)
      BY <3>1 DEF Searchable, At
    <3> QED
      BY <3>1, <3>2
  <2>4. CASE x = 0
    <3>1. 0 \in 0..(sz - 1) /\ \A p \in 0..(sz - 1) : At(p) > key
      BY <1>1, <2>3, <2>4
    <3> QED
      BY <3>1 DEF LastNotBeyond, At
  <2>5. CASE x # 0
    <3>1. x - 1 \in 0..(sz - 1) /\ x - 1 \notin I
      BY <1>1, <2>2, <2>5
    <3>2. At(x - 1) <= key
      BY <1>2, <3>1
    <3>3. \A p \in 0..(sz - 1) : p > x - 1 => At(p) > key
      BY <1>1, <2>2, <2>3
    <3> QED
      BY <3>1, <3>2, <3>3 DEF LastNotBeyond, At
  <2> QED
    BY <2>4, <2>5
<1> QED
  BY <1>3, <1>4

\* Where that place lies among the others.
LEMMA PlaceDivides ==
    ASSUME NEW key \in Nat, NEW cur, Searchable(cur), NEW b, LastNotBeyond(b, key, cur),
           NEW p \in 0..(Len(index) - 1)
    PROVE  /\ p > b => NameOf(index[p + 1], cur) > key
           /\ p < b => NameOf(index[p + 1], cur) < key
           /\ p = b /\ p # 0 => NameOf(index[p + 1], cur) <= key
<1>1. CASE p < b
  <2>1. /\ b \in 0..(Len(index) - 1) /\ b # 0 /\ Len(index) \in Nat
        /\ p + 1 \in DOMAIN index /\ b + 1 \in DOMAIN index /\ p + 1 < b + 1
    BY <1>1 DEF LastNotBeyond, Searchable
  <2>2. /\ NameOf(index[p + 1], cur) \in Nat /\ NameOf(index[b + 1], cur) \in Nat
        /\ NameOf(index[p + 1], cur) < NameOf(index[b + 1], cur)
        /\ NameOf(index[b + 1], cur) <= key
    BY <2>1 DEF Searchable, LastNotBeyond
  <2> QED
    BY <1>1, <2>1, <2>2
<1> QED
  BY <1>1 DEF LastNotBeyond

LEMMA PlaceUnique ==
    ASSUME NEW key \in Nat, NEW cur, Searchable(cur),
           NEW a, LastNotBeyond(a, key, cur), NEW b, LastNotBeyond(b, key, cur)
    PROVE  a = b
<1>1. /\ a \in 0..(Len(index) - 1) /\ b \in 0..(Len(index) - 1) /\ Len(index) \in Nat
      /\ a + 1 \in DOMAIN index /\ b + 1 \in DOMAIN index
  BY DEF LastNotBeyond, Searchable
<1>2. NameOf(index[a + 1], cur) \in Nat /\ NameOf(index[b + 1], cur) \in Nat
  BY <1>1 DEF Searchable
<1>3. ~(a < b)
  BY <1>1, <1>2, PlaceDivides DEF LastNotBeyond
<1>4. ~(b < a)
  BY <1>1, <1>2, PlaceDivides DEF LastNotBeyond
<1> QED
  BY <1>1, <1>3, <1>4

\* The binary search ends there.  Each turn goes back, to a smaller end, or
\* forward, closer to the same end; and the place it is looking for satisfies
\* every equation of the search, so there is a function that does.
LEMMA BsearchEnds ==
    ASSUME NEW key \in Nat, NEW cur, Searchable(cur)
    PROVE  LastNotBeyond(Bsearch(key, cur), key, cur)
<1> DEFINE sz == Len(index)
           X == (0..(sz - 1)) \X (0..sz)
           At(p) == NameOf(index[p + 1], cur)
           Turn(f, s) ==
               IF key = At(s[1]) THEN s[1]
               ELSE IF key < At(s[1])
               THEN IF s[1] = 0 THEN s[1] ELSE f[<<s[1] \div 2, s[1]>>]
               ELSE IF s[1] = sz - 1 \/ key < At(s[1] + 1) THEN s[1]
               ELSE f[<<(s[1] + s[2]) \div 2, s[2]>>]
           f == CHOOSE f : f = [s \in X |-> Turn(f, s)]
<1>1. Bsearch(key, cur) = f[<<sz \div 2, sz>>]
  BY DEF Bsearch
<1>2. PICK b : LastNotBeyond(b, key, cur)
  BY PlaceExists
<1>3. /\ sz \in Nat \ {0} /\ b \in 0..(sz - 1)
      /\ \A p \in 0..(sz - 1) : At(p) \in Nat
  BY <1>2 DEF LastNotBeyond, Searchable
<1>4. \A p \in 0..(sz - 1) :
         /\ p > b => At(p) > key
         /\ p < b => At(p) < key
         /\ p = b /\ p # 0 => At(p) <= key
  BY <1>2, PlaceDivides
<1> HIDE DEF At, f
<1>5. f = [s \in X |-> Turn(f, s)]
  <2> DEFINE g == [s \in X |-> b]
  <2>1. ASSUME NEW s \in X PROVE Turn(g, s) = b
    <3>1. s[1] \in 0..(sz - 1) /\ s[2] \in 0..sz /\ At(s[1]) \in Nat
      BY <1>3
    <3>2. CASE key = At(s[1])
      BY <1>3, <1>4, <3>1, <3>2
    <3>3. CASE key < At(s[1])
      <4>1. s[1] = 0 => b = 0
        BY <1>3, <1>4, <3>1, <3>3
      <4>2. <<s[1] \div 2, s[1]>> \in X
        BY <1>3, <3>1
      <4> QED
        BY <3>3, <4>1, <4>2
    <3>4. CASE key > At(s[1])
      <4>1. s[1] = sz - 1 => b = s[1]
        BY <1>3, <1>4, <3>1, <3>4
      <4>2. s[1] # sz - 1 /\ key < At(s[1] + 1) => b = s[1]
        <5> SUFFICES ASSUME s[1] # sz - 1, key < At(s[1] + 1)
                     PROVE  b = s[1]
          OBVIOUS
        <5>1. s[1] + 1 \in 0..(sz - 1)
          BY <1>3, <3>1
        <5>2. ~(s[1] > b)
          BY <1>4, <3>1, <3>4
        <5>3. ~(s[1] + 1 < b) /\ ~(s[1] + 1 = b)
          BY <1>3, <1>4, <5>1, <3>1
        <5> QED
          BY <1>3, <3>1, <5>2, <5>3
      <4>3. s[1] # sz - 1 => <<(s[1] + s[2]) \div 2, s[2]>> \in X
        BY <1>3, <3>1
      <4> QED
        BY <3>1, <3>4, <4>1, <4>2, <4>3
    <3> QED
      BY <3>1, <3>2, <3>3, <3>4
  <2>2. g = [s \in X |-> Turn(g, s)]
    BY <2>1
  <2> HIDE DEF g, Turn, X
  <2> QED
    BY <2>2 DEF f
<1> DEFINE Bad(p, e) == /\ p < e
                        /\ e = sz \/ key < At(e)
                        /\ f[<<p, e>>] # b
<1>6. \A p \in 0..(sz - 1), e \in 0..sz : ~Bad(p, e)
  <2> SUFFICES ASSUME NEW p0 \in 0..(sz - 1), NEW e0 \in 0..sz, Bad(p0, e0)
               PROVE  FALSE
    OBVIOUS
  <2> HIDE DEF Bad
  <2> DEFINE Ends == {e \in 0..sz : \E p \in 0..(sz - 1) : Bad(p, e)}
  <2>1. Ends \subseteq Nat /\ Ends # {}
    BY <1>3
  <2>2. PICK end \in Ends : \A e \in Ends : end <= e
    BY <2>1, Smallest
  <2> DEFINE Lengths == {n \in Nat : \E p \in 0..(sz - 1) : Bad(p, end) /\ n = end - p}
  <2>3. Lengths \subseteq Nat /\ Lengths # {}
    <3>1. PICK p \in 0..(sz - 1) : Bad(p, end)
      OBVIOUS
    <3>2. p < end
      BY <3>1 DEF Bad
    <3>3. end - p \in Nat
      BY <1>3, <3>2
    <3> QED
      BY <3>1, <3>3
  <2>4. PICK l \in Lengths : \A k \in Lengths : l <= k
    BY <2>3, Smallest
  <2>5. PICK pos \in 0..(sz - 1) : Bad(pos, end) /\ l = end - pos
    BY <2>4
  <2>6. /\ pos \in 0..(sz - 1) /\ end \in 0..sz /\ pos < end
        /\ end = sz \/ key < At(end)
        /\ f[<<pos, end>>] # b /\ <<pos, end>> \in X
        /\ l = end - pos
    BY <1>3, <2>5 DEF Bad
  <2>7. f[<<pos, end>>] = Turn(f, <<pos, end>>)
    BY <1>5, <2>6
  <2>8. At(pos) \in Nat
    BY <1>3, <2>6
  <2>9. f[<<pos, end>>] =
            IF key = At(pos) THEN pos
            ELSE IF key < At(pos)
            THEN IF pos = 0 THEN pos ELSE f[<<pos \div 2, pos>>]
            ELSE IF pos = sz - 1 \/ key < At(pos + 1) THEN pos
            ELSE f[<<(pos + end) \div 2, end>>]
    BY <2>7
  <2>10. ASSUME NEW p \in 0..(sz - 1), NEW e \in 0..sz, p < e,
                e = sz \/ key < At(e), f[<<p, e>>] = f[<<pos, end>>]
         PROVE  end <= e /\ (e = end => p <= pos)
    <3>1. Bad(p, e)
      BY <2>6, <2>10 DEF Bad
    <3>2. e \in Ends /\ (e = end => end - p \in Lengths)
      <4>1. e \in Ends
        BY <3>1
      <4>2. e = end => end - p \in Nat
        BY <1>3, <2>10
      <4> QED
        BY <3>1, <4>1, <4>2
    <3>3. end <= e /\ (e = end => l <= end - p)
      BY <2>2, <2>4, <3>2
    <3>4. p \in Nat /\ pos \in Nat /\ end \in Nat /\ l = end - pos
      BY <1>3, <2>6
    <3>5. l <= end - p => p <= pos
      BY <3>4
    <3> QED
      BY <3>3, <3>5
  <2> HIDE DEF Ends, Lengths, Turn, X
  <2>11. pos \in Nat /\ end \in Nat /\ sz \in Nat /\ b \in Nat /\ pos < sz /\ end <= sz /\ pos < end
    BY <1>3, <2>6
  <2>12. f[<<pos, end>>] # pos
    <3> SUFFICES ASSUME f[<<pos, end>>] = pos PROVE FALSE
      OBVIOUS
    <3>1. pos # b
      BY <2>6
    <3>2. CASE pos < b
      <4>1. key > At(pos)
        BY <1>4, <2>6, <3>2
      <4>2. pos + 1 \in 0..(sz - 1) /\ pos # sz - 1
        BY <1>3, <2>11, <3>2
      <4>3. /\ At(pos + 1) \in Nat
            /\ pos + 1 < b => At(pos + 1) < key
            /\ pos + 1 = b /\ pos + 1 # 0 => At(pos + 1) <= key
        BY <1>3, <1>4, <4>2
      <4>4. At(pos + 1) <= key
        BY <2>11, <3>2, <4>3
      <4>5. f[<<pos, end>>] = f[<<(pos + end) \div 2, end>>]
        BY <2>8, <2>9, <4>1, <4>2, <4>3, <4>4
      <4>6. end # pos + 1
        BY <2>6, <2>11, <4>2, <4>3, <4>4
      <4> DEFINE p == (pos + end) \div 2
      <4>7. p \in 0..(sz - 1) /\ p < end /\ p > pos
        BY <2>11, <4>6
      <4> HIDE DEF p
      <4>8. p <= pos
        BY <2>6, <2>10, <4>5, <4>7 DEF p
      <4> QED
        BY <2>11, <4>7, <4>8
    <3>3. CASE pos > b
      <4>1. key < At(pos) /\ pos # 0
        BY <1>4, <2>6, <2>11, <3>3
      <4>2. f[<<pos, end>>] = f[<<pos \div 2, pos>>]
        BY <2>8, <2>9, <4>1
      <4> DEFINE p == pos \div 2
      <4>3. p \in 0..(sz - 1) /\ p < pos /\ pos \in 0..sz
        BY <2>11, <4>1
      <4> HIDE DEF p
      <4>4. end <= pos
        BY <2>10, <4>1, <4>2, <4>3 DEF p
      <4> QED
        BY <2>11, <4>4
    <3> QED
      BY <2>11, <3>1, <3>2, <3>3
  <2>13. CASE key < At(pos)
    <3>1. pos # 0 /\ f[<<pos, end>>] = f[<<pos \div 2, pos>>]
      BY <2>8, <2>9, <2>12, <2>13
    <3> DEFINE p == pos \div 2
    <3>2. p \in 0..(sz - 1) /\ p < pos /\ pos \in 0..sz
      BY <2>11, <3>1
    <3> HIDE DEF p
    <3>3. end <= pos
      BY <2>10, <2>13, <3>1, <3>2 DEF p
    <3> QED
      BY <2>11, <3>3
  <2>14. CASE key > At(pos)
    <3>1. /\ pos # sz - 1 /\ ~(key < At(pos + 1))
          /\ f[<<pos, end>>] = f[<<(pos + end) \div 2, end>>]
      BY <2>8, <2>9, <2>12, <2>14
    <3>2. end # pos + 1
      BY <2>6, <2>11, <3>1
    <3> DEFINE p == (pos + end) \div 2
    <3>3. p \in 0..(sz - 1) /\ p < end /\ p > pos
      BY <2>11, <3>2
    <3> HIDE DEF p
    <3>4. p <= pos
      BY <2>6, <2>10, <3>1, <3>3 DEF p
    <3> QED
      BY <2>11, <3>3, <3>4
  <2>15. key # At(pos)
    BY <2>9, <2>12
  <2> QED
    BY <2>8, <2>13, <2>14, <2>15
<1>7. sz \div 2 \in 0..(sz - 1) /\ sz \div 2 < sz /\ sz \in 0..sz
  BY <1>3
<1>8. f[<<sz \div 2, sz>>] = b
  BY <1>6, <1>7
<1> QED
  BY <1>1, <1>2, <1>8

\* So does the linear one.
LEMMA LinearSearchEnds ==
    ASSUME NEW key \in Nat, Searchable(chain_iterator_cur)
    PROVE  LastNotBeyond(LinearSearch(key), key, chain_iterator_cur)
<1> DEFINE sz == Len(index)
           At(p) == NameOf(index[p + 1], chain_iterator_cur)
           beyond == {p \in 0..(sz - 1) : At(p) > key}
           end == IF beyond = {} THEN sz ELSE Min(beyond)
<1>1. LinearSearch(key) = IF end = 0 THEN 0 ELSE end - 1
  BY DEF LinearSearch
<1>2. sz \in Nat \ {0}
  BY DEF Searchable
<1>3. ASSUME NEW p \in 0..(sz - 1) PROVE At(p) \in Nat
  <2>1. p + 1 \in DOMAIN index
    BY <1>2 DEF Searchable
  <2> QED
    BY <2>1 DEF Searchable
<1>4. PICK b : LastNotBeyond(b, key, chain_iterator_cur)
  BY PlaceExists
<1>5. /\ b \in 0..(sz - 1)
      /\ \A p \in 0..(sz - 1) :
             /\ p > b => At(p) > key
             /\ p < b => At(p) < key
             /\ p = b /\ p # 0 => At(p) <= key
  BY <1>4, PlaceDivides DEF LastNotBeyond
<1> HIDE DEF At
<1>6. CASE beyond = {}
  <2>1. ~(sz - 1 > b)
    BY <1>2, <1>5, <1>6
  <2> QED
    BY <1>1, <1>2, <1>4, <1>5, <1>6, <2>1
<1>7. CASE beyond # {}
  <2>1. beyond \subseteq Nat
    OBVIOUS
  <2>2. PICK x \in beyond : \A y \in beyond : x <= y
    BY <1>7, <2>1, Smallest
  <2>3. Min(beyond) \in beyond /\ \A y \in beyond : Min(beyond) <= y
    BY <2>2 DEF Min
  <2> DEFINE m == Min(beyond)
  <2> HIDE DEF beyond
  <2>4. end = m
    BY <1>7
  <2> HIDE DEF end, m
  <2>5. m \in 0..(sz - 1) /\ At(m) > key /\ At(m) \in Nat
    BY <1>3, <2>3 DEF m, beyond
  <2>6. m = 0 => b = 0
    BY <1>2, <1>3, <1>5, <2>5
  <2>7. m # 0 => m > b
    BY <1>2, <1>3, <1>5, <2>5
  <2>8. b + 1 <= sz - 1 => m <= b + 1
    <3> SUFFICES ASSUME b + 1 <= sz - 1 PROVE m <= b + 1
      OBVIOUS
    <3>1. b + 1 \in 0..(sz - 1) /\ b + 1 > b
      BY <1>2, <1>5
    <3>2. b + 1 \in beyond
      BY <1>5, <3>1 DEF beyond
    <3> QED
      BY <2>3, <3>2 DEF m
  <2>9. (IF m = 0 THEN 0 ELSE m - 1) = b
    BY <1>2, <1>5, <2>5, <2>6, <2>7, <2>8
  <2> QED
    BY <1>1, <1>4, <2>4, <2>9
<1> QED
  BY <1>6, <1>7

-----------------------------------------------------------------------------
(* Lists and indices.                                                      *)

LEMMA NamesAreNumbers == \A n \in Names : n \in Nat /\ n > 0
  BY IndexAssumption

LEMMA ExceptStays ==
    ASSUME NEW S, NEW list \in Seq(S), NEW i, NEW e \in S
    PROVE  /\ [list EXCEPT ![i] = e] \in Seq(S)
           /\ DOMAIN [list EXCEPT ![i] = e] = DOMAIN list
           /\ \A j \in DOMAIN list : [list EXCEPT ![i] = e][j] = IF j = i THEN e ELSE list[j]
<1> DEFINE n == Len(list)
           new == [list EXCEPT ![i] = e]
<1>1. n \in Nat /\ list \in [1..n -> S]
  OBVIOUS
<1>2. /\ new \in [1..n -> S]
      /\ DOMAIN new = DOMAIN list
      /\ \A j \in DOMAIN list : new[j] = IF j = i THEN e ELSE list[j]
  <2> HIDE DEF n
  <2> QED
    BY <1>1
<1> HIDE DEF new, n
<1>3. new \in Seq(S)
  BY <1>1, <1>2
<1> QED
  BY <1>2, <1>3 DEF new

\* What Built takes from a list: some of it, in order, the first among it.
LEMMA BuiltIndexes ==
    ASSUME NEW S, NEW list \in Seq(S)
    PROVE  /\ Built(list) \in Seq(S)
           /\ \A k \in DOMAIN Built(list) : (k - 1) * BUCKET_LEN + 1 \in DOMAIN list
           /\ Built(list) # <<>> => list # <<>> /\ Built(list)[1] = list[1]
           /\ \A k, l \in DOMAIN Built(list) :
                 k < l => (k - 1) * BUCKET_LEN + 1 < (l - 1) * BUCKET_LEN + 1
<1> DEFINE B == BUCKET_LEN
           n == Len(list)
           q == (n + B - 1) \div B
<1>1. B \in Nat \ {0} /\ n \in Nat
  BY IndexAssumption
<1> HIDE DEF B, n
<1>2. q \in Nat /\ q * B <= n + B - 1
  BY <1>1
<1> HIDE DEF q
<1>3. Built(list) = [k \in 1..q |-> list[(k - 1) * B + 1]]
  BY DEF Built, q, B, n
<1>4. ASSUME NEW k \in 1..q PROVE (k - 1) * B + 1 \in 1..n
  <2>1. (k - 1) * B <= (q - 1) * B /\ (k - 1) * B \in Nat
    BY <1>1, <1>2
  <2>2. (q - 1) * B = q * B - B
    BY <1>1, <1>2
  <2> QED
    BY <1>1, <1>2, <2>1, <2>2
<1>5. ASSUME NEW k \in 1..q, NEW l \in 1..q, k < l
      PROVE  (k - 1) * B + 1 < (l - 1) * B + 1
  <2>1. k - 1 \in Nat /\ l - 1 \in Nat /\ k - 1 < l - 1
    BY <1>2, <1>5
  <2>2. (k - 1) * B < (l - 1) * B
    BY <1>1, <2>1
  <2>3. (k - 1) * B \in Nat /\ (l - 1) * B \in Nat
    BY <1>1, <2>1
  <2> QED
    BY <2>2, <2>3
<1>6. \A k \in 1..q : list[(k - 1) * B + 1] \in S
  BY <1>4 DEF n
<1>7. Built(list) \in Seq(S)
  BY <1>2, <1>3, <1>6
<1>8. Built(list) # <<>> => list # <<>> /\ Built(list)[1] = list[1]
  <2> SUFFICES ASSUME Built(list) # <<>> PROVE list # <<>> /\ Built(list)[1] = list[1]
    OBVIOUS
  <2>1. 1 \in 1..q
    BY <1>2, <1>3
  <2>2. (1 - 1) * B + 1 = 1
    BY <1>1
  <2>3. Built(list)[1] = list[1]
    BY <1>3, <2>1, <2>2
  <2>4. 1 \in 1..n
    BY <1>4, <2>1, <2>2
  <2> QED
    BY <2>3, <2>4 DEF n
<1> QED
  BY <1>3, <1>4, <1>5, <1>7, <1>8 DEF B, n

\* An index that was just built.
LEMMA BuiltIsIndex ==
    ASSUME NEW S, NEW list \in Seq(S), NEW names, Ascending(list, names)
    PROVE  /\ Built(list) \in Seq({list[i] : i \in DOMAIN list})
           /\ Ascending(Built(list), names)
           /\ Built(list) # <<>> => list # <<>> /\ Built(list)[1] = list[1]
<1> DEFINE L == {list[i] : i \in DOMAIN list}
           at(k) == (k - 1) * BUCKET_LEN + 1
<1>1. list \in Seq(L)
  OBVIOUS
<1>2. Built(list) \in Seq(L)
  BY <1>1, BuiltIndexes
<1>3. \A k \in DOMAIN Built(list) : at(k) \in DOMAIN list /\ Built(list)[k] = list[at(k)]
  BY BuiltIndexes DEF Built
<1>4. \A k, l \in DOMAIN Built(list) : k < l => at(k) < at(l)
  BY BuiltIndexes
<1> HIDE DEF at
<1>5. Ascending(Built(list), names)
  BY <1>3, <1>4 DEF Ascending
<1> QED
  BY <1>2, <1>5, BuiltIndexes

\* The place of a listed chain.
LEMMA Position ==
    ASSUME OnceEach, NEW i \in DOMAIN chains
    PROVE  PositionOf(chains[i]) = i
  BY DEF OnceEach, PositionOf

LEMMA PositionListed ==
    ASSUME NEW c \in Listed
    PROVE  PositionOf(c) \in DOMAIN chains /\ chains[PositionOf(c)] = c
  BY DEF Listed, PositionOf

LEMMA SuccessorListed ==
    ASSUME TypeOK, NEW c \in Listed, NEW end
    PROVE  Successor(c, end) \in Listed \cup {end}
<1>1. PositionOf(c) \in 1..Len(chains) /\ Len(chains) \in Nat
  BY PositionListed DEF TypeOK
<1>2. PositionOf(c) # Len(chains) => PositionOf(c) + 1 \in DOMAIN chains
  BY <1>1 DEF TypeOK
<1> QED
  BY <1>2 DEF Successor, Listed

\* Whatever is found is a listed chain of that name.
LEMMA FoundIsListed ==
    ASSUME NEW key, NEW c \in FindLabel(key)
    PROVE  c \in Listed /\ name[c] = key
  BY DEF FindLabel, Listed

LEMMA ListedChains ==
    ASSUME TypeOK, NEW c \in Listed
    PROVE  c \in Objects /\ c # ListHead /\ c # BuiltIn /\ c # NULL /\ name[c] \in Names
<1>1. ListHead \notin Objects /\ BuiltIn \notin Objects /\ NULL \notin Objects
  <2>1. \A o \in {ListHead, BuiltIn, NULL} : o \notin Objects
    BY IndexAssumption
  <2> QED
    BY <2>1
<1>2. c \in Objects
  BY DEF TypeOK, Listed
<1>3. name[c] \in Names
  BY <1>2 DEF TypeOK
<1> QED
  BY <1>1, <1>2, <1>3

LEMMA Searching ==
    ASSUME TypeOK, OnceEach, Undisturbed, index # <<>>
    PROVE  Searchable(NULL)
<1>1. \A c \in Listed : c # ListHead /\ name[c] \in Nat /\ name[c] > 0
  BY ListedChains, NamesAreNumbers
<1>2. CASE index = <<ListHead>>
  <2>1. Len(index) = 1 /\ DOMAIN index = 1..1 /\ index[1] = ListHead
    BY <1>2
  <2>2. NameOf(ListHead, NULL) = 0
    BY DEF NameOf
  <2> QED
    BY <2>1, <2>2 DEF Searchable, TypeOK
<1>3. CASE Indexed
  <2>1. \A p \in DOMAIN index : index[p] \in Listed
    BY <1>3 DEF Indexed
  <2>2. \A p \in DOMAIN index : NameOf(index[p], NULL) = name[index[p]]
    BY <1>1, <2>1 DEF NameOf
  <2> QED
    BY <1>1, <1>3, <2>1, <2>2 DEF Searchable, TypeOK, Indexed, Ascending
<1> QED
  BY <1>2, <1>3 DEF Undisturbed

\* Where the search in the list starts nothing has been passed over.
LEMMA StartsEarly ==
    ASSUME TypeOK, OnceEach, Undisturbed, NEW key \in Names
    PROVE  /\ StartPosition(key) \in Nat \ {0}
           /\ \A i \in DOMAIN chains : name[chains[i]] >= key => StartPosition(key) <= i
<1>1. DOMAIN chains = 1..Len(chains) /\ Len(chains) \in Nat
  BY DEF TypeOK
<1>2. CASE index = <<>> \/ index[Bucket(key) + 1] = ListHead
  <2>1. StartPosition(key) = 1
    BY <1>2 DEF StartPosition
  <2> QED
    BY <1>1, <2>1
<1>3. CASE index # <<>> /\ index[Bucket(key) + 1] # ListHead
  <2> DEFINE b == Bucket(key)
             c == index[b + 1]
  <2>1. key \in Nat /\ Searchable(NULL) /\ chain_iterator_cur = NULL
    BY <1>3, Searching, NamesAreNumbers DEF Undisturbed
  <2>2. LastNotBeyond(b, key, NULL)
    BY <2>1, BsearchEnds DEF Bucket
  <2>3. b \in Nat /\ b + 1 \in DOMAIN index
    BY <2>1, <2>2 DEF LastNotBeyond, Searchable
  <2> HIDE DEF b
  <2>4. Indexed
    <3> SUFFICES ASSUME index = <<ListHead>> PROVE FALSE
      BY DEF Undisturbed
    <3>1. DOMAIN index = 1..1 /\ index[1] = ListHead
      OBVIOUS
    <3>2. b + 1 = 1
      BY <2>3, <3>1
    <3> QED
      BY <1>3, <3>1, <3>2 DEF b
  <2>5. c \in Listed
    BY <2>3, <2>4 DEF Indexed
  <2>6. StartPosition(key) = PositionOf(c)
    BY <1>3 DEF StartPosition, b
  <2>7. PositionOf(c) \in 1..Len(chains) /\ chains[PositionOf(c)] = c
    BY <1>1, <2>5, PositionListed
  <2>8. CASE b = 0
    <3>1. chains # <<>> /\ c = chains[1]
      BY <1>3, <2>4, <2>8 DEF Indexed
    <3>2. 1 \in DOMAIN chains
      BY <2>7, <1>1
    <3>3. PositionOf(c) = 1
      BY <3>1, <3>2, Position
    <3> QED
      BY <1>1, <2>6, <3>3
  <2>9. CASE b # 0
    <3>1. name[c] <= key
      <4>1. NameOf(c, NULL) <= key
        BY <2>2, <2>9 DEF LastNotBeyond
      <4>2. c # ListHead
        BY <1>3 DEF b
      <4> QED
        BY <4>1, <4>2 DEF NameOf
    <3>2. ASSUME NEW i \in DOMAIN chains, name[chains[i]] >= key
          PROVE  PositionOf(c) <= i
      <4>1. i < PositionOf(c) => name[chains[i]] < name[c]
        BY <1>1, <2>7 DEF Undisturbed, Ascending
      <4>2. name[chains[i]] \in Nat /\ name[c] \in Nat
        BY <2>5, NamesAreNumbers DEF TypeOK, Listed
      <4> QED
        BY <1>1, <2>1, <2>7, <3>1, <3>2, <4>1, <4>2
    <3> QED
      BY <2>6, <2>7, <3>2
  <2> QED
    BY <2>8, <2>9
<1> QED
  BY <1>2, <1>3

LEMMA FindsWhatIsThere ==
    ASSUME TypeOK, OnceEach, Undisturbed, NEW key \in Names
    PROVE  FindLabel(key) # {} <=> key \in ListedNames
<1>1. ASSUME NEW c \in FindLabel(key) PROVE key \in ListedNames
  BY FoundIsListed DEF ListedNames
<1>2. ASSUME key \in ListedNames PROVE FindLabel(key) # {}
  <2>1. PICK i \in DOMAIN chains : name[chains[i]] = key
    BY <1>2 DEF ListedNames, Listed
  <2> DEFINE reached ==
                {j \in DOMAIN chains : j >= StartPosition(key) /\ name[chains[j]] >= key}
  <2>2. /\ DOMAIN chains = 1..Len(chains) /\ Len(chains) \in Nat /\ key \in Nat
        /\ \A j \in DOMAIN chains : name[chains[j]] \in Nat
    BY NamesAreNumbers DEF TypeOK
  <2>3. i \in reached
    BY <2>1, <2>2, StartsEarly
  <2>4. \A j \in reached : i <= j
    <3> SUFFICES ASSUME NEW j \in reached, j < i PROVE FALSE
      BY <2>2
    <3>1. name[chains[j]] < name[chains[i]]
      BY DEF Undisturbed, Ascending
    <3> QED
      BY <2>1, <2>2, <3>1
  <2>5. Min(reached) = i
    <3>1. \A j \in reached : j \in Nat
      BY <2>2
    <3>2. Min(reached) \in reached /\ \A j \in reached : Min(reached) <= j
      BY <2>3, <2>4 DEF Min
    <3> HIDE DEF reached
    <3> QED
      BY <2>3, <2>4, <3>1, <3>2
  <2>6. chains[i] \in FindLabel(key)
    <3> HIDE DEF reached
    <3>1. FindLabel(key) = {chains[k] : k \in {j \in reached : j = Min(reached)
                                                           /\ name[chains[j]] = key}}
      BY DEF FindLabel, reached
    <3> QED
      BY <2>1, <2>3, <2>5, <3>1
  <2> QED
    BY <2>6
<1> QED
  BY <1>1, <1>2

LEMMA IndexPointsToChains ==
    ASSUME Undisturbed
    PROVE  ~Dangles
<1>1. CASE index = <<ListHead>>
  <2>1. \A k \in DOMAIN index : index[k] = ListHead
    BY <1>1
  <2> QED
    BY <2>1 DEF Dangles
<1> QED
  BY <1>1 DEF Undisturbed, Indexed, Dangles

\* What the DEBUG build asserts.
LEMMA SearchesAgree ==
    ASSUME TypeOK, OnceEach, Undisturbed, index # <<>>, NEW key \in Names
    PROVE  Bucket(key) = LinearSearch(key)
<1>1. key \in Nat /\ Searchable(NULL) /\ chain_iterator_cur = NULL
  BY Searching, NamesAreNumbers DEF Undisturbed
<1>2. LastNotBeyond(Bucket(key), key, NULL) /\ LastNotBeyond(LinearSearch(key), key, NULL)
  BY <1>1, BsearchEnds, LinearSearchEnds DEF Bucket
<1> QED
  BY <1>1, <1>2, PlaceUnique

-----------------------------------------------------------------------------
(* The initial states and the steps.                                       *)

LEMMA EnoughObjects ==
    /\ Cardinality(Names) \in Nat /\ Cardinality(Objects) \in Nat
    /\ Cardinality(Names) < Cardinality(Objects)
    /\ SetToSeq(Objects) \in [1..Cardinality(Objects) -> Objects]
    /\ \A i, j \in 1..Cardinality(Objects) :
          i # j => SetToSeq(Objects)[i] # SetToSeq(Objects)[j]
    /\ \A c \in Objects : \E i \in 1..Cardinality(Objects) : SetToSeq(Objects)[i] = c
<1>1. /\ Cardinality(Names) \in Nat /\ Cardinality(Objects) \in Nat
      /\ Cardinality(Names) < Cardinality(Objects)
  BY FS_CardinalityType, IndexAssumption
<1>2. ExistsBijection(1..Cardinality(Objects), Objects)
  BY FS_CardinalityType, IndexAssumption
<1>3. PICK f \in [1..Cardinality(Objects) -> Objects] : IsInjective(f)
  BY <1>2 DEF ExistsBijection, Bijection, Injection, IsInjective
<1>4. /\ SetToSeq(Objects) \in [1..Cardinality(Objects) -> Objects]
      /\ IsInjective(SetToSeq(Objects))
  BY <1>3 DEF SetToSeq
<1> DEFINE m == Cardinality(Objects)
           g == SetToSeq(Objects)
<1>5. g \in Injection(1..m, Objects)
  BY <1>4 DEF Injection, IsInjective
<1>6. Cardinality(1..m) = m
  BY <1>1, FS_Interval
<1>7. g \in Surjection(1..m, Objects)
  <2> HIDE DEF g, m
  <2> QED
    BY <1>5, <1>6, FS_Injection, IndexAssumption DEF m
<1> QED
  BY <1>1, <1>4, <1>7 DEF IsInjective, Surjection

LEMMA InvInit == Init => Inv
<1> SUFFICES ASSUME Init PROVE Inv
  OBVIOUS
<1> DEFINE objects == SetToSeq(Objects)
           m == Cardinality(Objects)
<1>1. PICK n \in 0..Cardinality(Names) :
         \E sorted \in [1..n -> Names] :
            /\ \A i, j \in 1..n : i < j => sorted[i] < sorted[j]
            /\ chains = SubSeq(objects, 1, n)
            /\ name = [c \in Objects |->
                  LET i == CHOOSE i \in DOMAIN objects : objects[i] = c IN
                  IF i <= n THEN sorted[i] ELSE FreedName]
            /\ index = Built(chains)
            /\ chain_iterator_cur = NULL
            /\ disturbances = 0
  BY DEF Init
<1>2. PICK sorted \in [1..n -> Names] :
         /\ \A i, j \in 1..n : i < j => sorted[i] < sorted[j]
         /\ chains = SubSeq(objects, 1, n)
         /\ name = [c \in Objects |->
               LET i == CHOOSE i \in DOMAIN objects : objects[i] = c IN
               IF i <= n THEN sorted[i] ELSE FreedName]
         /\ index = Built(chains)
         /\ chain_iterator_cur = NULL
         /\ disturbances = 0
  BY <1>1
<1>3. /\ n \in Nat /\ m \in Nat /\ n < m
      /\ objects \in [1..m -> Objects] /\ objects \in Seq(Objects) /\ Len(objects) = m
      /\ \A i, j \in 1..m : i # j => objects[i] # objects[j]
      /\ \A c \in Objects : \E i \in 1..m : objects[i] = c
  BY EnoughObjects
<1> HIDE DEF objects, m
<1>4. /\ chains \in Seq(Objects) /\ DOMAIN chains = 1..n /\ Len(chains) = n
      /\ \A i \in 1..n : chains[i] = objects[i]
  BY <1>2, <1>3, SubSeqProperties
<1>5. OnceEach
  BY <1>3, <1>4 DEF OnceEach
<1>6. ASSUME NEW j \in 1..m
      PROVE  (CHOOSE i \in DOMAIN objects : objects[i] = objects[j]) = j
  BY <1>3
<1>7. \A j \in 1..m : name[objects[j]] = IF j <= n THEN sorted[j] ELSE FreedName
  <2> SUFFICES ASSUME NEW j \in 1..m
               PROVE  name[objects[j]] = IF j <= n THEN sorted[j] ELSE FreedName
    OBVIOUS
  <2>1. objects[j] \in Objects
    BY <1>3
  <2>2. name[objects[j]] =
            LET i == CHOOSE i \in DOMAIN objects : objects[i] = objects[j] IN
            IF i <= n THEN sorted[i] ELSE FreedName
    BY <1>2, <2>1
  <2> QED
    BY <1>6, <2>2
<1>8. FreedName \in Names
  BY IndexAssumption DEF FreedName
<1>9. name \in [Objects -> Names]
  <2> SUFFICES ASSUME NEW c \in Objects
               PROVE  LET i == CHOOSE i \in DOMAIN objects : objects[i] = c IN
                      (IF i <= n THEN sorted[i] ELSE FreedName) \in Names
    BY <1>2
  <2>1. PICK j \in 1..m : objects[j] = c
    BY <1>3
  <2> QED
    BY <1>3, <1>6, <1>8, <2>1
<1>10. Ascending(chains, name)
  BY <1>2, <1>3, <1>4, <1>7 DEF Ascending
<1>11. Indexed
  <2>1. index = Built(chains) /\ chains \in Seq(Objects)
    BY <1>2, <1>4
  <2>2. /\ Built(chains) \in Seq(Listed)
        /\ Ascending(Built(chains), name)
        /\ Built(chains) # <<>> => chains # <<>> /\ Built(chains)[1] = chains[1]
    BY <1>10, <2>1, BuiltIsIndex DEF Listed
  <2> QED
    BY <2>1, <2>2 DEF Indexed
<1>12. index \in Seq(Objects \cup {ListHead})
  <2>1. index \in Seq(Objects)
    BY <1>2, <1>4, BuiltIndexes
  <2> QED
    BY <2>1
<1>13. TypeOK
  <2>1. chain_iterator_cur = NULL /\ disturbances = 0
    BY <1>2
  <2>2. 0 \in 0..MaxDisturbances
    BY IndexAssumption
  <2> QED
    BY <1>4, <1>9, <1>12, <2>1, <2>2 DEF TypeOK
<1> QED
  BY <1>2, <1>5, <1>10, <1>11, <1>13 DEF Inv, Undisturbed, IteratorIsLive

\* A new chain.  Until something is disturbed it goes where its name belongs,
\* and the index is left alone unless it is built again or the chain is the
\* first of all.
LEMMA CreateInserts ==
    ASSUME Inv, NEW key \in Names, Create(key)
    PROVE  \E c \in Objects, pos \in 1..(Len(chains) + 1) :
              /\ c \notin Listed
              /\ chains' = InsertAt(chains, pos, c)
              /\ name' = [name EXCEPT ![c] = key]
              /\ \/ index' = Built(chains')
                 \/ index # <<>> /\ index' = [index EXCEPT ![1] = c]
                 \/ index' = index
              /\ disturbances = 0 =>
                    /\ key \notin ListedNames
                    /\ \A i \in DOMAIN chains : i < pos <=> name[chains[i]] < key
                    /\ index = <<ListHead>> => index' \in {Built(chains'), index}
                    /\ Indexed /\ index # <<>> =>
                          \/ index' = Built(chains')
                          \/ index' = [index EXCEPT ![1] = c] /\ pos = 1
                          \/ index' = index /\ pos # 1
<1> DEFINE c == CHOOSE o \in Objects : o \notin Listed
           start == IF SmallerThanIndex(key) THEN 1 ELSE StartPosition(key)
           later == {i \in DOMAIN chains : i >= start /\ key <= name[chains[i]]}
           pos == IF later = {} THEN Len(chains) + 1 ELSE Min(later)
<1>1. TypeOK /\ OnceEach
  BY DEF Inv
<1>2. Listed \subseteq Objects
  BY <1>1, ListedChains
<1>3. c \in Objects /\ c \notin Listed
  BY <1>2 DEF Create
<1>4. DOMAIN chains = 1..Len(chains) /\ Len(chains) \in Nat
  BY <1>1 DEF TypeOK
<1>5. /\ chains' = InsertAt(chains, pos, c)
      /\ name' = [name EXCEPT ![c] = key]
      /\ index' = IF Exceeded(chains', Len(index)) THEN Built(chains')
                  ELSE IF SmallerThanIndex(key) THEN [index EXCEPT ![1] = c]
                  ELSE index
      /\ FindLabel(key) = {}
  BY DEF Create
<1> HIDE DEF c, start
<1>6. pos \in 1..(Len(chains) + 1) /\ (later # {} => pos \in later /\ \A i \in later : pos <= i)
  <2>1. CASE later = {}
    BY <1>4, <2>1
  <2>2. CASE later # {}
    <3>1. later \subseteq Nat
      BY <1>4
    <3>2. PICK x \in later : \A y \in later : x <= y
      BY <2>2, <3>1, Smallest
    <3>3. Min(later) \in later /\ \A y \in later : Min(later) <= y
      BY <3>2 DEF Min
    <3>4. pos = Min(later)
      BY <2>2
    <3>5. Min(later) \in 1..Len(chains)
      BY <1>4, <3>3
    <3> HIDE DEF later, pos
    <3> QED
      BY <1>4, <3>3, <3>4, <3>5
  <2> QED
    BY <2>1, <2>2
<1>7. SmallerThanIndex(key) => index # <<>>
  BY DEF SmallerThanIndex
<1>8. ASSUME disturbances = 0
      PROVE  /\ key \notin ListedNames
             /\ \A i \in DOMAIN chains : i < pos <=> name[chains[i]] < key
             /\ index = <<ListHead>> => ~SmallerThanIndex(key)
             /\ Indexed /\ index # <<>> => (SmallerThanIndex(key) <=> pos = 1)
  <2>1. Undisturbed /\ chain_iterator_cur = NULL
    BY <1>8 DEF Inv, Undisturbed
  <2>2. key \notin ListedNames
    BY <1>1, <1>5, <2>1, FindsWhatIsThere
  <2>3. /\ key \in Nat /\ key > 0
        /\ \A i \in DOMAIN chains : name[chains[i]] \in Nat /\ name[chains[i]] # key
    BY <1>1, <2>2, NamesAreNumbers DEF TypeOK, ListedNames, Listed
  <2>4. \A i, j \in DOMAIN chains : i < j => name[chains[i]] < name[chains[j]]
    BY <2>1 DEF Undisturbed, Ascending
  <2>5. index = <<ListHead>> => ~SmallerThanIndex(key)
    <3> SUFFICES ASSUME index = <<ListHead>> PROVE ~(key <= NameOf(index[1], NULL))
      BY <2>1 DEF SmallerThanIndex
    <3>1. NameOf(index[1], NULL) = 0
      BY DEF NameOf
    <3> QED
      BY <2>3, <3>1
  <2>6. start \in Nat \ {0} /\ \A i \in DOMAIN chains : name[chains[i]] >= key => start <= i
    BY <1>1, <1>4, <2>1, StartsEarly DEF start
  <2>7. later = {i \in DOMAIN chains : key <= name[chains[i]]}
    BY <1>4, <2>3, <2>6
  <2>8. \A i \in DOMAIN chains : i < pos <=> name[chains[i]] < key
    <3> SUFFICES ASSUME NEW i \in DOMAIN chains
                 PROVE  i < pos <=> name[chains[i]] < key
      OBVIOUS
    <3> HIDE DEF pos
    <3>1. CASE i < pos
      <4>1. i \notin later
        BY <1>4, <1>6, <3>1
      <4> QED
        BY <2>3, <2>7, <3>1, <4>1
    <3>2. CASE ~(i < pos)
      <4>1. later # {}
        BY <1>4, <3>2 DEF pos
      <4>2. pos \in DOMAIN chains /\ key <= name[chains[pos]]
        BY <1>6, <4>1
      <4>3. i = pos \/ name[chains[pos]] < name[chains[i]]
        BY <1>4, <2>4, <3>2, <4>2
      <4> QED
        BY <2>3, <3>2, <4>2, <4>3
    <3> QED
      BY <3>1, <3>2
  <2>9. ASSUME Indexed, index # <<>>
        PROVE  SmallerThanIndex(key) <=> pos = 1
    <3>1. chains # <<>> /\ index[1] = chains[1] /\ 1 \in DOMAIN chains
      BY <1>4, <2>9 DEF Indexed
    <3>2. chains[1] # ListHead
      BY <1>1, <3>1, ListedChains DEF Listed
    <3>3. NameOf(index[1], NULL) = name[chains[1]]
      BY <3>1, <3>2 DEF NameOf
    <3>4. pos = 1 <=> key <= name[chains[1]]
      <4> HIDE DEF pos
      <4> QED
        BY <1>4, <1>6, <2>3, <2>8, <3>1
    <3>5. key <= name[chains[1]] => Bucket(key) = 0
      <4>1. Searchable(NULL) /\ LastNotBeyond(Bucket(key), key, NULL)
        BY <1>1, <2>1, <2>3, <2>9, Searching, BsearchEnds DEF Bucket
      <4>2. 0 \in 0..(Len(index) - 1) /\ Bucket(key) \in Nat
        BY <4>1 DEF LastNotBeyond, Searchable
      <4>3. 0 < Bucket(key) => NameOf(index[0 + 1], NULL) < key
        BY <2>3, <4>1, <4>2, PlaceDivides
      <4> QED
        BY <2>3, <3>1, <3>3, <4>2, <4>3
    <3> HIDE DEF pos
    <3> QED
      BY <2>1, <2>9, <3>3, <3>4, <3>5 DEF SmallerThanIndex
  <2> QED
    BY <2>2, <2>5, <2>8, <2>9
<1> HIDE DEF pos
<1> QED
  BY <1>3, <1>5, <1>6, <1>7, <1>8

LEMMA CreateKeeps ==
    ASSUME Inv, NEW key \in Names, Create(key)
    PROVE  Inv'
<1>1. TypeOK /\ OnceEach /\ IteratorIsLive
  BY DEF Inv
<1>2. PICK c \in Objects, pos \in 1..(Len(chains) + 1) :
              /\ c \notin Listed
              /\ chains' = InsertAt(chains, pos, c)
              /\ name' = [name EXCEPT ![c] = key]
              /\ \/ index' = Built(chains')
                 \/ index # <<>> /\ index' = [index EXCEPT ![1] = c]
                 \/ index' = index
              /\ disturbances = 0 =>
                    /\ key \notin ListedNames
                    /\ \A i \in DOMAIN chains : i < pos <=> name[chains[i]] < key
                    /\ index = <<ListHead>> => index' \in {Built(chains'), index}
                    /\ Indexed /\ index # <<>> =>
                          \/ index' = Built(chains')
                          \/ index' = [index EXCEPT ![1] = c] /\ pos = 1
                          \/ index' = index /\ pos # 1
  BY CreateInserts
<1>3. chain_iterator_cur' = chain_iterator_cur /\ disturbances' = disturbances
  BY DEF Create
<1>4. /\ chains \in Seq(Objects) /\ DOMAIN chains = 1..Len(chains) /\ Len(chains) \in Nat
      /\ \A i \in DOMAIN chains : chains[i] \in Listed /\ chains[i] # c
  BY <1>1, <1>2 DEF TypeOK, Listed
<1>5. /\ chains' \in Seq(Objects)
      /\ DOMAIN chains' = 1..(Len(chains) + 1)
      /\ \A i \in DOMAIN chains' :
             /\ i < pos => i \in DOMAIN chains /\ chains'[i] = chains[i]
             /\ i = pos => chains'[i] = c
             /\ i > pos => i - 1 \in DOMAIN chains /\ chains'[i] = chains[i - 1]
  <2> DEFINE list == InsertAt(chains, pos, c)
  <2>1. /\ list \in Seq(Objects)
        /\ Len(list) = Len(chains) + 1
        /\ \A i \in 1..(pos - 1) : list[i] = chains[i]
        /\ list[pos] = c
        /\ \A i \in pos..Len(chains) : list[i + 1] = chains[i]
    <3>1. chains \in Seq(Objects)
      BY <1>4
    <3> QED
      BY <3>1, InsertAtProperties
  <2>2. chains' = list
    BY <1>2
  <2> HIDE DEF list
  <2>3. DOMAIN list = 1..(Len(chains) + 1)
    BY <2>1
  <2>4. ASSUME NEW i \in 1..(Len(chains) + 1)
        PROVE  /\ i < pos => i \in DOMAIN chains /\ list[i] = chains[i]
               /\ i = pos => list[i] = c
               /\ i > pos => i - 1 \in DOMAIN chains /\ list[i] = chains[i - 1]
    <3>1. i < pos => i \in 1..(pos - 1) /\ i \in 1..Len(chains)
      BY <1>4
    <3>2. i > pos => i - 1 \in pos..Len(chains) /\ i - 1 \in 1..Len(chains) /\ (i - 1) + 1 = i
      BY <1>4
    <3>3. i > pos => list[i] = chains[i - 1]
      BY <2>1, <3>2
    <3> QED
      BY <1>4, <2>1, <3>1, <3>2, <3>3
  <2> QED
    BY <2>1, <2>2, <2>3, <2>4
<1>6. Listed \subseteq Listed' /\ c \in Listed'
  <2>1. pos \in DOMAIN chains'
    BY <1>4, <1>5
  <2>2. ASSUME NEW i \in DOMAIN chains PROVE chains[i] \in Listed'
    <3>1. CASE i < pos
      <4>1. i \in DOMAIN chains' /\ chains'[i] = chains[i]
        BY <1>4, <1>5, <3>1
      <4> QED
        BY <4>1 DEF Listed
    <3>2. CASE ~(i < pos)
      <4>1. i + 1 \in DOMAIN chains' /\ i + 1 > pos /\ (i + 1) - 1 = i
        BY <1>4, <1>5, <3>2
      <4>2. chains'[i + 1] = chains[i]
        BY <1>5, <4>1
      <4> QED
        BY <4>1, <4>2 DEF Listed
    <3> QED
      BY <3>1, <3>2
  <2> QED
    BY <1>5, <2>1, <2>2 DEF Listed
<1>7. name' \in [Objects -> Names] /\ \A d \in Listed : name'[d] = name[d]
  BY <1>1, <1>2, ListedChains DEF TypeOK
<1>8. index' \in Seq(Objects \cup {ListHead})
  <2>1. Built(chains') \in Seq(Objects)
    BY <1>5, BuiltIndexes
  <2>2. Built(chains') \in Seq(Objects \cup {ListHead})
    BY <2>1
  <2>3. [index EXCEPT ![1] = c] \in Seq(Objects \cup {ListHead})
    <3> DEFINE T == Objects \cup {ListHead}
    <3>1. index \in Seq(T) /\ c \in T
      BY <1>1 DEF TypeOK
    <3> HIDE DEF T
    <3>2. [index EXCEPT ![1] = c] \in Seq(T)
      BY <3>1, ExceptStays
    <3> QED
      BY <3>2 DEF T
  <2> QED
    BY <1>1, <1>2, <2>2, <2>3 DEF TypeOK
<1>9. TypeOK'
  BY <1>1, <1>3, <1>5, <1>7, <1>8 DEF TypeOK
<1>10. OnceEach'
  <2> SUFFICES ASSUME NEW i \in DOMAIN chains', NEW j \in DOMAIN chains', i < j
               PROVE  chains'[i] # chains'[j]
    BY <1>5 DEF OnceEach
  <2>1. pos \in Nat /\ i \in Nat /\ j \in Nat
    BY <1>4, <1>5
  <2> QED
    BY <1>1, <1>4, <1>5, <2>1 DEF OnceEach
<1>11. IteratorIsLive'
  BY <1>1, <1>3, <1>6 DEF IteratorIsLive
<1>12. ASSUME disturbances = 0 PROVE Undisturbed'
  <2>1. Undisturbed
    BY <1>12 DEF Inv
  <2>2. /\ key \in Nat
        /\ \A d \in Listed : name[d] \in Nat /\ name[d] # key
        /\ name'[c] = key
    BY <1>1, <1>2, <1>12, ListedChains, NamesAreNumbers DEF TypeOK, ListedNames
  <2>3. ASSUME NEW i \in DOMAIN chains
        PROVE  name'[chains[i]] = name[chains[i]] /\ (i < pos <=> name'[chains[i]] < key)
    BY <1>2, <1>4, <1>7, <1>12
  <2>4. ASSUME NEW i \in DOMAIN chains', NEW j \in DOMAIN chains', i < j
        PROVE  name'[chains'[i]] < name'[chains'[j]]
    <3>1. pos \in Nat /\ i \in Nat /\ j \in Nat
      BY <1>4, <1>5
    <3>2. \A k, l \in DOMAIN chains : k < l => name'[chains[k]] < name'[chains[l]]
      BY <2>1, <2>3 DEF Undisturbed, Ascending
    <3>3. CASE i = pos
      <4>1. chains'[i] = c /\ j - 1 \in DOMAIN chains /\ chains'[j] = chains[j - 1] /\ ~(j - 1 < pos)
        BY <1>5, <2>4, <3>1, <3>3
      <4>2. name'[chains[j - 1]] \in Nat /\ name'[chains[j - 1]] # key /\ ~(name'[chains[j - 1]] < key)
        BY <1>4, <2>2, <2>3, <4>1
      <4> QED
        BY <2>2, <4>1, <4>2
    <3>4. CASE j = pos
      <4>1. chains'[j] = c /\ i \in DOMAIN chains /\ chains'[i] = chains[i] /\ i < pos
        BY <1>5, <2>4, <3>1, <3>4
      <4> QED
        BY <2>2, <2>3, <4>1
    <3>5. CASE i # pos /\ j # pos
      <4> DEFINE k == IF i < pos THEN i ELSE i - 1
                 l == IF j < pos THEN j ELSE j - 1
      <4>1. k \in DOMAIN chains /\ chains'[i] = chains[k]
        BY <1>5, <3>1, <3>5
      <4>2. l \in DOMAIN chains /\ chains'[j] = chains[l]
        BY <1>5, <3>1, <3>5
      <4>3. k < l
        BY <2>4, <3>1, <3>5
      <4> QED
        BY <3>2, <4>1, <4>2, <4>3
    <3> QED
      BY <3>3, <3>4, <3>5
  <2>5. Ascending(chains', name')
    BY <2>4 DEF Ascending
  <2>6. CASE index' = Built(chains')
    <3>1. /\ Built(chains') \in Seq({chains'[i] : i \in DOMAIN chains'})
          /\ Ascending(Built(chains'), name')
          /\ Built(chains') # <<>> => chains' # <<>> /\ Built(chains')[1] = chains'[1]
      BY <1>5, <2>5, BuiltIsIndex
    <3>2. Indexed'
      BY <2>6, <3>1 DEF Indexed, Listed
    <3> QED
      BY <1>3, <2>1, <2>5, <3>2 DEF Undisturbed
  <2>7. CASE index' = index /\ index = <<ListHead>>
    BY <1>3, <2>1, <2>5, <2>7 DEF Undisturbed
  <2>8. CASE Indexed /\ index' = index /\ (index # <<>> => pos # 1)
    <3>1. \A k \in DOMAIN index : index[k] \in Listed
      BY <2>8 DEF Indexed
    <3>2. index' \in Seq(Listed')
      BY <1>6, <2>8, <3>1 DEF Indexed
    <3>3. Ascending(index', name')
      BY <1>7, <2>8, <3>1 DEF Indexed, Ascending
    <3>4. index' # <<>> => chains' # <<>> /\ index'[1] = chains'[1]
      <4> SUFFICES ASSUME index # <<>> PROVE chains' # <<>> /\ index[1] = chains'[1]
        BY <2>8
      <4>1. 1 < pos /\ 1 \in DOMAIN chains' /\ index[1] = chains[1]
        BY <1>4, <1>5, <2>8 DEF Indexed
      <4>2. chains'[1] = chains[1]
        BY <1>5, <4>1
      <4>3. chains' # <<>>
        BY <1>4, <1>5
      <4> QED
        BY <4>1, <4>2, <4>3
    <3> QED
      BY <1>3, <2>1, <2>5, <3>2, <3>3, <3>4 DEF Undisturbed, Indexed
  <2>9. CASE Indexed /\ index # <<>> /\ index' = [index EXCEPT ![1] = c] /\ pos = 1
    <3>1. DOMAIN index' = DOMAIN index /\ 1 \in DOMAIN index
      BY <2>9 DEF Indexed
    <3>2. \A k \in DOMAIN index : index[k] \in Listed /\ index'[k] = IF k = 1 THEN c ELSE index[k]
      BY <2>9 DEF Indexed
    <3>3. index' \in Seq(Listed')
      <4>1. index \in Seq(Listed')
        BY <1>6, <2>9, <3>2 DEF Indexed
      <4> QED
        BY <1>6, <2>9, <4>1
    <3>4. ASSUME NEW d \in Listed PROVE key < name'[d]
      <4>1. PICK i \in DOMAIN chains : chains[i] = d
        BY DEF Listed
      <4>2. ~(i < pos)
        BY <1>4, <2>9
      <4> QED
        BY <1>7, <2>2, <2>3, <4>1, <4>2
    <3>5. ASSUME NEW k \in DOMAIN index', NEW l \in DOMAIN index', k < l
          PROVE  name'[index'[k]] < name'[index'[l]]
      <4>1. l # 1 /\ l \in DOMAIN index /\ index[l] \in Listed /\ index'[l] = index[l]
        BY <2>9, <3>1, <3>2, <3>5 DEF Indexed
      <4>2. CASE k = 1
        BY <2>2, <3>1, <3>2, <3>4, <4>1, <4>2
      <4>3. CASE k # 1
        BY <1>7, <2>9, <3>1, <3>2, <3>5, <4>1, <4>3 DEF Indexed, Ascending
      <4> QED
        BY <4>2, <4>3
    <3>6. Ascending(index', name')
      BY <3>5 DEF Ascending
    <3>7. chains' # <<>> /\ index'[1] = chains'[1]
      <4>1. 1 \in DOMAIN chains' /\ chains'[1] = c
        BY <1>4, <1>5, <2>9
      <4> QED
        BY <3>1, <3>2, <4>1
    <3> QED
      BY <1>3, <2>1, <2>5, <3>3, <3>6, <3>7 DEF Undisturbed, Indexed
  <2> QED
    BY <1>2, <1>12, <2>1, <2>6, <2>7, <2>8, <2>9 DEF Undisturbed
<1> QED
  BY <1>3, <1>9, <1>10, <1>11, <1>12 DEF Inv

\* A chain is taken out of the list, an iterator that stands at it moves on.
LEMMA DeleteRemoves ==
    ASSUME Inv, NEW key \in Names, Delete(key)
    PROVE  \E c \in Listed, p \in DOMAIN chains :
              /\ name[c] = key /\ chains[p] = c
              /\ chains' = RemoveAt(chains, p)
              /\ name' = [name EXCEPT ![c] = FreedName]
              /\ chain_iterator_cur' = IF c = chain_iterator_cur
                                       THEN IF p = Len(chains) THEN NULL ELSE chains[p + 1]
                                       ELSE chain_iterator_cur
              /\ \/ index' = Built(chains')
                 \/ index' = [index EXCEPT ![Bsearch(key, chain_iterator_cur') + 1] =
                                   Successor(c, ListHead)]
                 \/ index' = index
              /\ disturbances = 0 =>
                    LET k == Bsearch(key, NULL) IN
                    \/ index' = Built(chains')
                    \/ /\ index # <<>> /\ index[k + 1] = c
                       /\ Bsearch(NameOf(Successor(c, ListHead), NULL), NULL) = k
                       /\ index' = [index EXCEPT ![k + 1] = Successor(c, ListHead)]
                    \/ /\ index # <<>> => index[k + 1] # c
                       /\ index' = index
<1>1. TypeOK /\ OnceEach /\ IteratorIsLive
  BY DEF Inv
<1>2. PICK c \in FindLabel(key) :
         LET cur == IteratorWithout(c)
             k == Bsearch(key, cur)
         IN
         /\ chain_iterator_cur' = cur
         /\ chains' = RemoveAt(chains, PositionOf(c))
         /\ IF index # <<>> /\ index[k + 1] = c
            THEN index' = IF SameBucket(k, c, cur)
                          THEN [index EXCEPT ![k + 1] = Successor(c, ListHead)]
                          ELSE Built(chains')
            ELSE UNCHANGED index
         /\ name' = [name EXCEPT ![c] = FreedName]
         /\ UNCHANGED disturbances
  BY DEF Delete
<1>3. c \in Listed /\ name[c] = key
  BY FoundIsListed
<1> DEFINE p == PositionOf(c)
<1>4. p \in DOMAIN chains /\ chains[p] = c
  BY <1>3, PositionListed
<1>5. chain_iterator_cur' = IF c = chain_iterator_cur
                            THEN IF p = Len(chains) THEN NULL ELSE chains[p + 1]
                            ELSE chain_iterator_cur
  BY <1>2 DEF IteratorWithout, Successor
<1>6. disturbances = 0 => chain_iterator_cur' = NULL
  <2> SUFFICES ASSUME disturbances = 0 PROVE chain_iterator_cur' = NULL
    OBVIOUS
  <2>1. c # NULL /\ chain_iterator_cur = NULL
    BY <1>1, <1>3, ListedChains DEF Inv, Undisturbed
  <2> QED
    BY <1>5, <2>1
<1> HIDE DEF p
<1>7. chains' = RemoveAt(chains, p) /\ name' = [name EXCEPT ![c] = FreedName]
  BY <1>2 DEF p
<1> DEFINE k == Bsearch(key, chain_iterator_cur')
<1>8. IF index # <<>> /\ index[k + 1] = c
      THEN index' = IF SameBucket(k, c, chain_iterator_cur')
                    THEN [index EXCEPT ![k + 1] = Successor(c, ListHead)]
                    ELSE Built(chains')
      ELSE index' = index
  BY <1>2
<1> HIDE DEF k
<1>9. \/ index' = Built(chains')
      \/ index' = [index EXCEPT ![k + 1] = Successor(c, ListHead)]
      \/ index' = index
  BY <1>8
<1>10. disturbances = 0 =>
         \/ index' = Built(chains')
         \/ /\ index # <<>> /\ index[k + 1] = c
            /\ Bsearch(NameOf(Successor(c, ListHead), NULL), NULL) = k
            /\ index' = [index EXCEPT ![k + 1] = Successor(c, ListHead)]
         \/ /\ index # <<>> => index[k + 1] # c
            /\ index' = index
  BY <1>6, <1>8 DEF SameBucket
<1>11. disturbances = 0 => k = Bsearch(key, NULL)
  BY <1>6 DEF k
<1> QED
  <2>1. disturbances = 0 =>
           LET j == Bsearch(key, NULL) IN
           \/ index' = Built(chains')
           \/ /\ index # <<>> /\ index[j + 1] = c
              /\ Bsearch(NameOf(Successor(c, ListHead), NULL), NULL) = j
              /\ index' = [index EXCEPT ![j + 1] = Successor(c, ListHead)]
           \/ /\ index # <<>> => index[j + 1] # c
              /\ index' = index
    BY <1>10, <1>11
  <2> QED
    BY <1>3, <1>4, <1>5, <1>7, <1>9, <2>1 DEF k

LEMMA DeleteKeeps ==
    ASSUME Inv, NEW key \in Names, Delete(key)
    PROVE  Inv'
<1>1. TypeOK /\ OnceEach /\ IteratorIsLive
  BY DEF Inv
<1> DEFINE k == Bsearch(key, NULL)
<1>2. PICK c \in Listed, p \in DOMAIN chains :
              /\ name[c] = key /\ chains[p] = c
              /\ chains' = RemoveAt(chains, p)
              /\ name' = [name EXCEPT ![c] = FreedName]
              /\ chain_iterator_cur' = IF c = chain_iterator_cur
                                       THEN IF p = Len(chains) THEN NULL ELSE chains[p + 1]
                                       ELSE chain_iterator_cur
              /\ \/ index' = Built(chains')
                 \/ index' = [index EXCEPT ![Bsearch(key, chain_iterator_cur') + 1] =
                                   Successor(c, ListHead)]
                 \/ index' = index
              /\ disturbances = 0 =>
                    \/ index' = Built(chains')
                    \/ /\ index # <<>> /\ index[k + 1] = c
                       /\ Bsearch(NameOf(Successor(c, ListHead), NULL), NULL) = k
                       /\ index' = [index EXCEPT ![k + 1] = Successor(c, ListHead)]
                    \/ /\ index # <<>> => index[k + 1] # c
                       /\ index' = index
  BY DeleteRemoves
<1> HIDE DEF k
<1>3. disturbances' = disturbances
  BY DEF Delete
<1>4. /\ chains \in Seq(Objects) /\ DOMAIN chains = 1..Len(chains) /\ Len(chains) \in Nat
      /\ p \in 1..Len(chains)
      /\ \A i \in DOMAIN chains : chains[i] \in Listed
  BY <1>1, <1>2 DEF TypeOK, Listed
<1>5. /\ chains' \in Seq(Objects)
      /\ DOMAIN chains' = 1..(Len(chains) - 1)
      /\ \A i \in DOMAIN chains' :
             /\ i < p => i \in DOMAIN chains /\ chains'[i] = chains[i]
             /\ i >= p => i + 1 \in DOMAIN chains /\ chains'[i] = chains[i + 1]
  <2> DEFINE list == RemoveAt(chains, p)
  <2>1. /\ list \in Seq(Objects)
        /\ Len(list) = Len(chains) - 1
        /\ \A i \in 1..(p - 1) : list[i] = chains[i]
        /\ \A i \in p..(Len(chains) - 1) : list[i] = chains[i + 1]
    BY <1>4, RemoveAtProperties
  <2>2. chains' = list
    BY <1>2
  <2> HIDE DEF list
  <2>3. DOMAIN list = 1..(Len(chains) - 1)
    BY <2>1
  <2>4. ASSUME NEW i \in 1..(Len(chains) - 1)
        PROVE  /\ i < p => i \in DOMAIN chains /\ list[i] = chains[i]
               /\ i >= p => i + 1 \in DOMAIN chains /\ list[i] = chains[i + 1]
    <3>1. i < p => i \in 1..(p - 1) /\ i \in 1..Len(chains)
      BY <1>4
    <3>2. i >= p => i \in p..(Len(chains) - 1) /\ i + 1 \in 1..Len(chains)
      BY <1>4
    <3> QED
      BY <1>4, <2>1, <3>1, <3>2
  <2> QED
    BY <2>1, <2>2, <2>3, <2>4
<1>6. ASSUME NEW d \in Listed, d # c PROVE d \in Listed'
  <2>1. PICK i \in DOMAIN chains : chains[i] = d
    BY DEF Listed
  <2>2. CASE i < p
    <3>1. i \in DOMAIN chains' /\ chains'[i] = d
      BY <1>4, <1>5, <2>1, <2>2
    <3> QED
      BY <3>1 DEF Listed
  <2>3. CASE i > p
    <3>1. i - 1 \in DOMAIN chains' /\ i - 1 >= p /\ (i - 1) + 1 = i
      BY <1>4, <1>5, <2>3
    <3>2. chains'[i - 1] = d
      BY <1>5, <2>1, <3>1
    <3> QED
      BY <3>1, <3>2 DEF Listed
  <2> QED
    BY <1>2, <1>4, <1>6, <2>1, <2>2, <2>3
<1>7. /\ name' \in [Objects -> Names]
      /\ \A d \in Listed : d # c => name'[d] = name[d]
  <2>1. FreedName \in Names
    BY IndexAssumption DEF FreedName
  <2> QED
    BY <1>1, <1>2, <2>1, ListedChains DEF TypeOK
<1>8. index' \in Seq(Objects \cup {ListHead})
  <2> DEFINE T == Objects \cup {ListHead}
  <2>1. Built(chains') \in Seq(T)
    <3>1. Built(chains') \in Seq(Objects)
      BY <1>5, BuiltIndexes
    <3> QED
      BY <3>1
  <2>2. Successor(c, ListHead) \in T
    BY <1>1, SuccessorListed, ListedChains
  <2>3. index \in Seq(T)
    BY <1>1 DEF TypeOK
  <2> HIDE DEF T
  <2>4. \A i : [index EXCEPT ![i] = Successor(c, ListHead)] \in Seq(T)
    BY <2>2, <2>3, ExceptStays
  <2>5. index' \in Seq(T)
    BY <1>2, <2>1, <2>3, <2>4
  <2> QED
    BY <2>5 DEF T
<1>9. p # Len(chains) => chains[p + 1] \in Listed /\ chains[p + 1] # c
  <2> SUFFICES ASSUME p # Len(chains) PROVE chains[p + 1] \in Listed /\ chains[p + 1] # c
    OBVIOUS
  <2>1. p + 1 \in DOMAIN chains /\ p + 1 # p
    BY <1>4
  <2> QED
    BY <1>1, <1>2, <1>4, <2>1 DEF OnceEach
<1>10. IteratorIsLive'
  <2>1. CASE c = chain_iterator_cur
    BY <1>2, <1>6, <1>9, <2>1 DEF IteratorIsLive
  <2>2. CASE c # chain_iterator_cur
    BY <1>1, <1>2, <1>6, <2>2 DEF IteratorIsLive
  <2> QED
    BY <2>1, <2>2
<1>11. TypeOK'
  <2>1. Listed' \subseteq Objects
    BY <1>5 DEF Listed
  <2>2. chain_iterator_cur' \in Objects \cup {BuiltIn, NULL}
    BY <1>10, <2>1 DEF IteratorIsLive
  <2> QED
    BY <1>1, <1>3, <1>5, <1>7, <1>8, <2>2 DEF TypeOK
<1> DEFINE from(i) == IF i < p THEN i ELSE i + 1
<1>12. /\ \A i \in DOMAIN chains' : /\ from(i) \in DOMAIN chains /\ from(i) # p
                                 /\ chains'[i] = chains[from(i)]
                                 /\ chains'[i] \in Listed /\ chains'[i] # c
       /\ \A i, j \in DOMAIN chains' : i < j => from(i) < from(j)
  <2>1. ASSUME NEW i \in DOMAIN chains'
        PROVE  /\ from(i) \in DOMAIN chains /\ from(i) # p
               /\ chains'[i] = chains[from(i)]
    BY <1>4, <1>5
  <2>2. ASSUME NEW i \in DOMAIN chains'
        PROVE  chains'[i] \in Listed /\ chains'[i] # c
    <3> HIDE DEF from
    <3> QED
      BY <1>1, <1>2, <1>4, <2>1 DEF OnceEach
  <2>3. \A i, j \in DOMAIN chains' : i < j => from(i) < from(j)
    BY <1>4, <1>5
  <2> QED
    BY <2>1, <2>2, <2>3
<1> HIDE DEF from
<1>13. OnceEach'
  <2> SUFFICES ASSUME NEW i \in DOMAIN chains', NEW j \in DOMAIN chains', i < j
               PROVE  chains'[i] # chains'[j]
    BY <1>5 DEF OnceEach
  <2>1. from(i) # from(j)
    BY <1>4, <1>12
  <2> QED
    BY <1>1, <1>12, <2>1 DEF OnceEach
<1>14. ASSUME disturbances = 0 PROVE Undisturbed'
  <2>1. Undisturbed /\ chain_iterator_cur = NULL
    BY <1>14 DEF Inv, Undisturbed
  <2>2. /\ key \in Nat /\ c # NULL /\ c # ListHead
        /\ \A d \in Listed : name[d] \in Nat /\ name[d] > 0
    BY <1>1, ListedChains, NamesAreNumbers
  <2>3. chain_iterator_cur' = NULL
    BY <1>2, <2>1, <2>2
  <2>4. Ascending(chains', name')
    <3> SUFFICES ASSUME NEW i \in DOMAIN chains', NEW j \in DOMAIN chains', i < j
                 PROVE  name'[chains'[i]] < name'[chains'[j]]
      BY DEF Ascending
    <3>1. name[chains[from(i)]] < name[chains[from(j)]]
      BY <1>12, <2>1 DEF Undisturbed, Ascending
    <3> QED
      BY <1>7, <1>12, <3>1
  <2>5. CASE index' = Built(chains')
    <3>1. /\ Built(chains') \in Seq({chains'[i] : i \in DOMAIN chains'})
          /\ Ascending(Built(chains'), name')
          /\ Built(chains') # <<>> => chains' # <<>> /\ Built(chains')[1] = chains'[1]
      BY <1>5, <2>4, BuiltIsIndex
    <3>2. Indexed'
      BY <2>5, <3>1 DEF Indexed, Listed
    <3> QED
      BY <2>3, <2>4, <3>2 DEF Undisturbed
  <2>6. CASE index' = index /\ index = <<ListHead>>
    BY <2>3, <2>4, <2>6 DEF Undisturbed
  <2>7. ASSUME Indexed, index # <<>>
        PROVE  /\ Searchable(NULL) /\ LastNotBeyond(k, key, NULL)
               /\ k \in Nat /\ k + 1 \in DOMAIN index
               /\ \A j \in DOMAIN index : index[j] = c => j = k + 1
    <3>1. Searchable(NULL) /\ LastNotBeyond(k, key, NULL)
      BY <1>1, <2>1, <2>2, <2>7, Searching, BsearchEnds DEF k
    <3>2. /\ k \in Nat /\ k + 1 \in DOMAIN index /\ Len(index) \in Nat
          /\ DOMAIN index = 1..Len(index)
      BY <3>1 DEF LastNotBeyond, Searchable
    <3>3. ASSUME NEW j \in DOMAIN index, index[j] = c PROVE j = k + 1
      <4>1. j - 1 \in 0..(Len(index) - 1) /\ (j - 1) + 1 = j
        BY <3>2
      <4>2. NameOf(index[j], NULL) = key
        BY <1>2, <2>2, <3>3 DEF NameOf
      <4>3. ~(j - 1 > k) /\ ~(j - 1 < k)
        BY <2>2, <3>1, <4>1, <4>2, PlaceDivides
      <4> QED
        BY <3>2, <4>1, <4>3
    <3> QED
      BY <3>1, <3>2, <3>3
  <2>8. CASE Indexed /\ index' = index /\ (index # <<>> => index[k + 1] # c)
    <3>1. \A j \in DOMAIN index : index[j] \in Listed /\ index[j] # c
      <4> SUFFICES ASSUME NEW j \in DOMAIN index PROVE index[j] \in Listed /\ index[j] # c
        OBVIOUS
      <4>1. index[j] \in Listed /\ index # <<>>
        BY <2>8 DEF Indexed
      <4> QED
        BY <2>7, <2>8, <4>1
    <3>2. index' \in Seq(Listed')
      BY <1>6, <2>8, <3>1 DEF Indexed
    <3>3. Ascending(index', name')
      BY <1>7, <2>8, <3>1 DEF Indexed, Ascending
    <3>4. index' # <<>> => chains' # <<>> /\ index'[1] = chains'[1]
      <4> SUFFICES ASSUME index # <<>> PROVE chains' # <<>> /\ index[1] = chains'[1]
        BY <2>8
      <4>1. index[1] = chains[1] /\ 1 \in DOMAIN index
        BY <2>8 DEF Indexed
      <4>2. p # 1
        BY <1>2, <3>1, <4>1
      <4>3. 1 \in DOMAIN chains' /\ 1 < p
        BY <1>4, <1>5, <4>2
      <4>4. chains'[1] = chains[1]
        BY <1>5, <4>3
      <4>5. chains' # <<>>
        BY <4>3
      <4> QED
        BY <4>1, <4>4, <4>5
    <3> QED
      BY <2>3, <2>4, <3>2, <3>3, <3>4 DEF Undisturbed, Indexed
  <2>9. CASE /\ Indexed /\ index # <<>> /\ index[k + 1] = c
             /\ Bsearch(NameOf(Successor(c, ListHead), NULL), NULL) = k
             /\ index' = [index EXCEPT ![k + 1] = Successor(c, ListHead)]
    <3> DEFINE d == Successor(c, ListHead)
    <3>0. /\ Searchable(NULL) /\ LastNotBeyond(k, key, NULL)
          /\ k \in Nat /\ k + 1 \in DOMAIN index /\ Len(index) \in Nat
          /\ DOMAIN index = 1..Len(index)
          /\ \A j \in DOMAIN index : index[j] = c => j = k + 1
      BY <2>7, <2>9 DEF Searchable
    <3>1. PositionOf(c) = p
      BY <1>1, <1>2, Position
    <3>2. \A j \in DOMAIN index : index[j] \in Listed
      BY <2>9 DEF Indexed
    <3>3. CASE p = Len(chains)
      <4>1. d = ListHead
        BY <3>1, <3>3 DEF Successor
      <4>2. NameOf(d, NULL) = 0
        BY <4>1 DEF NameOf
      <4>3. LastNotBeyond(k, 0, NULL)
        BY <2>9, <3>0, <4>2, BsearchEnds
      <4>4. k = 0
        <5>1. k # 0 => NameOf(index[k + 1], NULL) <= 0
          BY <4>3 DEF LastNotBeyond
        <5>2. NameOf(index[k + 1], NULL) = name[c] /\ name[c] > 0 /\ name[c] \in Nat
          BY <2>2, <2>9 DEF NameOf
        <5> QED
          BY <5>1, <5>2
      <4>5. c = chains[1] /\ 1 \in DOMAIN chains
        BY <1>4, <2>9, <4>4 DEF Indexed
      <4>6. p = 1
        BY <1>1, <1>2, <4>5 DEF OnceEach
      <4>7. ASSUME NEW e \in Listed PROVE e = c
        <5>1. PICK i \in DOMAIN chains : chains[i] = e
          BY DEF Listed
        <5> QED
          BY <1>2, <1>4, <3>3, <4>6, <5>1
      <4>8. Len(index) = 1
        <5>1. \A j \in DOMAIN index : j = 1
          BY <3>0, <3>2, <4>4, <4>7
        <5>2. Len(index) \in DOMAIN index
          BY <3>0, <4>4
        <5> QED
          BY <5>1, <5>2
      <4>9. index' = <<ListHead>>
        <5>1. index = <<c>>
          BY <2>9, <3>0, <4>4, <4>8 DEF TypeOK, Searchable
        <5>2. index' = [<<c>> EXCEPT ![1] = ListHead]
          BY <2>9, <4>1, <4>4, <5>1
        <5> QED
          BY <5>2
      <4> QED
        BY <2>3, <2>4, <4>9 DEF Undisturbed
    <3>4. CASE p # Len(chains)
      <4>1. d = chains[p + 1] /\ p + 1 \in DOMAIN chains
        BY <1>4, <3>1, <3>4 DEF Successor
      <4>2. d \in Listed /\ d # c /\ d \in Listed' /\ name'[d] = name[d] /\ name[d] \in Nat
        BY <1>6, <1>7, <1>9, <2>2, <3>4, <4>1
      <4>3. name[c] < name[d]
        BY <1>2, <1>4, <2>1, <4>1 DEF Undisturbed, Ascending
      <4>4. NameOf(d, NULL) = name[d]
        BY <1>1, <4>2, ListedChains DEF NameOf
      <4>5. LastNotBeyond(k, name[d], NULL)
        BY <2>9, <3>0, <4>2, <4>4, BsearchEnds
      <4> HIDE DEF d
      <4>6. /\ DOMAIN index' = DOMAIN index
            /\ \A j \in DOMAIN index : index'[j] = IF j = k + 1 THEN d ELSE index[j]
        <5>1. index \in Seq(Objects \cup {ListHead})
          BY <3>0 DEF Searchable
        <5>2. index' = [index EXCEPT ![k + 1] = d]
          BY <2>9 DEF d
        <5> QED
          BY <5>1, <5>2
      <4>7. ASSUME NEW j \in DOMAIN index, j # k + 1
            PROVE  /\ index[j] \in Listed /\ index[j] # c /\ index[j] \in Listed'
                   /\ name'[index[j]] = name[index[j]]
        BY <1>6, <1>7, <3>0, <3>2, <4>7
      <4>8. index' \in Seq(Listed')
        <5>1. \A j \in 1..Len(index) : index'[j] \in Listed'
          BY <3>0, <4>2, <4>6, <4>7
        <5>2. index' \in Seq(Objects \cup {ListHead})
          BY <1>8
        <5>3. Len(index') = Len(index)
          BY <3>0, <4>6, <5>2
        <5> QED
          BY <3>0, <4>6, <5>1, <5>2, <5>3
      <4>9. ASSUME NEW i \in DOMAIN index, NEW j \in DOMAIN index, i < j
            PROVE  name'[index'[i]] < name'[index'[j]]
        <5>1. name[index[i]] < name[index[j]]
          BY <2>9, <4>9 DEF Indexed, Ascending
        <5>2. CASE i = k + 1
          <6>1. j # k + 1 /\ j - 1 > k /\ j - 1 \in 0..(Len(index) - 1) /\ (j - 1) + 1 = j
            BY <3>0, <4>9, <5>2
          <6>2. NameOf(index[j], NULL) > name[d]
            BY <4>5, <6>1 DEF LastNotBeyond
          <6>3. NameOf(index[j], NULL) = name[index[j]] /\ name[index[j]] \in Nat
            BY <1>1, <2>2, <3>2, ListedChains DEF NameOf
          <6> QED
            BY <4>2, <4>6, <4>7, <5>2, <6>1, <6>2, <6>3
        <5>3. CASE j = k + 1
          <6>1. i # k + 1
            BY <3>0, <4>9, <5>3
          <6>2. name[index[i]] \in Nat /\ name[c] \in Nat /\ name[index[i]] < name[c]
            BY <2>2, <2>9, <3>2, <5>1, <5>3
          <6> QED
            BY <4>2, <4>3, <4>6, <4>7, <5>3, <6>1, <6>2
        <5>4. CASE i # k + 1 /\ j # k + 1
          BY <4>6, <4>7, <5>1, <5>4
        <5> QED
          BY <5>2, <5>3, <5>4
      <4>10. Ascending(index', name')
        BY <4>6, <4>9 DEF Ascending
      <4>11. chains' # <<>> /\ index'[1] = chains'[1]
        <5>1. 1 \in DOMAIN chains' /\ chains' # <<>>
          BY <1>4, <1>5, <3>4
        <5>2. index[1] = chains[1] /\ 1 \in DOMAIN index /\ 1 \in DOMAIN chains
          BY <1>4, <2>9, <3>0 DEF Indexed
        <5>3. CASE p = 1
          <6>1. k + 1 = 1
            BY <1>2, <3>0, <5>2, <5>3
          <6>2. chains'[1] = chains[1 + 1]
            BY <1>5, <5>1, <5>3
          <6> QED
            BY <4>1, <4>6, <5>1, <5>2, <5>3, <6>1, <6>2
        <5>4. CASE p # 1
          <6>1. 1 < p
            BY <1>4, <5>4
          <6>2. chains'[1] = chains[1]
            BY <1>5, <5>1, <6>1
          <6>3. k + 1 # 1
            <7> SUFFICES ASSUME k + 1 = 1 PROVE FALSE
              OBVIOUS
            <7>1. chains[1] = c
              BY <2>9, <5>2
            <7> QED
              BY <1>1, <1>2, <5>2, <5>4, <7>1 DEF OnceEach
          <6> QED
            BY <4>6, <5>1, <5>2, <6>2, <6>3
        <5> QED
          BY <5>3, <5>4
      <4> QED
        BY <2>3, <2>4, <4>8, <4>10, <4>11 DEF Undisturbed, Indexed
    <3> QED
      BY <3>3, <3>4
  <2>10. CASE index = <<ListHead>>
    <3>1. Searchable(NULL)
      BY <1>1, <2>1, <2>10, Searching
    <3>2. LastNotBeyond(k, key, NULL)
      BY <2>2, <3>1, BsearchEnds DEF k
    <3>3. k = 0
      <4>1. Len(index) = 1
        BY <2>10
      <4> QED
        BY <3>2, <4>1 DEF LastNotBeyond
    <3>4. index[k + 1] # c
      BY <2>2, <2>10, <3>3
    <3> QED
      BY <1>2, <1>14, <2>5, <2>6, <2>10, <3>4
  <2> QED
    BY <1>2, <1>14, <2>1, <2>5, <2>8, <2>9, <2>10 DEF Undisturbed
<1> QED
  BY <1>3, <1>10, <1>11, <1>13, <1>14 DEF Inv

\* A renamed chain stays where it is: the list is sorted no more, but no chain
\* leaves it.
LEMMA RenameKeeps ==
    ASSUME Inv, NEW old \in Names, NEW new \in Names, Rename(old, new)
    PROVE  Inv'
<1>1. TypeOK /\ OnceEach /\ IteratorIsLive
  BY DEF Inv
<1>2. /\ chains' = chains /\ index' = index /\ chain_iterator_cur' = chain_iterator_cur
      /\ disturbances' = disturbances + 1 /\ disturbances < MaxDisturbances
  BY DEF Rename, Disturb
<1>3. disturbances' \in 0..MaxDisturbances /\ disturbances' # 0
  BY <1>1, <1>2, IndexAssumption DEF TypeOK
<1>4. name' \in [Objects -> Names]
  BY <1>1 DEF Rename, TypeOK
<1>5. TypeOK' /\ OnceEach' /\ IteratorIsLive'
  BY <1>1, <1>2, <1>3, <1>4 DEF TypeOK, OnceEach, IteratorIsLive, Listed
<1> QED
  BY <1>3, <1>5 DEF Inv

LEMMA FirstChainKeeps ==
    ASSUME Inv, FirstChain
    PROVE  Inv'
<1>1. TypeOK /\ OnceEach
  BY DEF Inv
<1>2. /\ chains' = chains /\ index' = index /\ name' = name /\ chain_iterator_cur' = BuiltIn
      /\ disturbances' = disturbances + 1 /\ disturbances < MaxDisturbances
  BY DEF FirstChain, Disturb
<1>3. disturbances' \in 0..MaxDisturbances /\ disturbances' # 0
  BY <1>1, <1>2, IndexAssumption DEF TypeOK
<1>4. TypeOK' /\ OnceEach' /\ IteratorIsLive'
  BY <1>1, <1>2, <1>3 DEF TypeOK, OnceEach, IteratorIsLive
<1> QED
  BY <1>3, <1>4 DEF Inv

\* An iteration has begun, or there would be no current chain.
LEMMA NextChainKeeps ==
    ASSUME Inv, NextChain
    PROVE  Inv'
<1>1. TypeOK /\ OnceEach /\ IteratorIsLive /\ disturbances # 0
  BY DEF Inv, Undisturbed, NextChain
<1>2. /\ chains' = chains /\ index' = index /\ name' = name
      /\ disturbances' = disturbances
  BY DEF NextChain
<1>3. chain_iterator_cur' \in Listed \cup {BuiltIn, NULL}
  <2>1. CASE chain_iterator_cur = BuiltIn
    <3>1. chains # <<>> => 1 \in DOMAIN chains
      BY <1>1 DEF TypeOK
    <3> QED
      BY <2>1, <3>1 DEF NextChain, Listed
  <2>2. CASE chain_iterator_cur # BuiltIn
    <3>1. chain_iterator_cur \in Listed
      BY <1>1, <2>2 DEF IteratorIsLive, NextChain
    <3> QED
      BY <1>1, <2>2, <3>1, SuccessorListed DEF NextChain
  <2> QED
    BY <2>1, <2>2
<1>4. Listed \subseteq Objects
  BY <1>1 DEF TypeOK, Listed
<1>5. TypeOK' /\ OnceEach' /\ IteratorIsLive'
  BY <1>1, <1>2, <1>3, <1>4 DEF TypeOK, OnceEach, IteratorIsLive, Listed
<1> QED
  BY <1>1, <1>2, <1>5 DEF Inv

LEMMA InvNext ==
    ASSUME Inv, [Next]_vars
    PROVE  Inv'
<1>1. ASSUME NEW key \in Names, Create(key) PROVE Inv'
  BY <1>1, CreateKeeps
<1>2. ASSUME NEW key \in Names, Delete(key) PROVE Inv'
  BY <1>2, DeleteKeeps
<1>3. ASSUME NEW old \in Names, NEW new \in Names, Rename(old, new) PROVE Inv'
  BY <1>3, RenameKeeps
<1>4. CASE FirstChain
  BY <1>4, FirstChainKeeps
<1>5. CASE NextChain
  BY <1>5, NextChainKeeps
<1>6. CASE UNCHANGED vars
  BY <1>6 DEF vars, Inv, TypeOK, OnceEach, IteratorIsLive, Undisturbed, Indexed, Listed
<1> QED
  BY <1>1, <1>2, <1>3, <1>4, <1>5, <1>6 DEF Next

LEMMA InvHolds == Spec => []Inv
<1>1. Init => Inv
  BY InvInit
<1>2. Inv /\ [Next]_vars => Inv'
  BY InvNext
<1> QED
  BY <1>1, <1>2, PTL DEF Spec

-----------------------------------------------------------------------------
(* Theorems.                                                               *)

\* Every variable of a handle's list of chains keeps its type: a chain is
\* never taken from memory that was not allocated for one, and the iterator of
\* TC_NEXT_CHAIN never moves to the head of the list.
THEOREM TypeCorrect == Spec => []TypeOK
<1>1. Inv => TypeOK
  BY DEF Inv
<1> QED
  BY <1>1, InvHolds, PTL

\* However chains are renamed, created and deleted between two calls of
\* TC_NEXT_CHAIN, TC_DELETE_CHAIN moves the iterator off the chain it frees.
THEOREM IteratorCorrect == Spec => []IteratorIsLive
<1>1. Inv => IteratorIsLive
  BY DEF Inv
<1> QED
  BY <1>1, InvHolds, PTL

\* iptcc_chain_index_delete_chain leaves no pointer to the chain that is freed
\* in the index, although the index is not rebuilt.
THEOREM IndexCorrect == Spec => []IndexIsLive
<1>1. Inv => IndexIsLive
  BY IndexPointsToChains DEF Inv, IndexIsLive
<1> QED
  BY <1>1, InvHolds, PTL

\* iptcc_find_label finds a chain exactly when there is one of that name,
\* whatever was created and deleted since the index was built: its binary
\* search ends, and never behind the chain it looks for.
THEOREM FindCorrect == Spec => []FindsExactly
<1>1. Inv => FindsExactly
  BY FindsWhatIsThere DEF Inv, FindsExactly
<1> QED
  BY <1>1, InvHolds, PTL

\* What iptcc_find_label asserts under DEBUG: iptcc_bsearch_chain_index ends
\* where iptcc_linearly_search_chain_index does.
THEOREM SearchCorrect == Spec => []BsearchIsLinear
<1>1. Inv => BsearchIsLinear
  BY SearchesAgree DEF Inv, BsearchIsLinear
<1> QED
  BY <1>1, InvHolds, PTL

=============================================================================
