----------------------------- MODULE ListProofs ----------------------------
(***************************************************************************)
(* Facts about numbers, lists and finite sets that the components' proofs  *)
(* share.  The induction they need is the least natural with a property: a *)
(* recursive definition is followed up to the first place where a claim    *)
(* would fail.                                                             *)
(***************************************************************************)
EXTENDS ListOps, FiniteSetTheorems, SequenceTheorems, WellFoundedInduction, TLAPS

\* A non-empty set of naturals has a least element.
LEMMA LeastNatural ==
    ASSUME NEW T, T \subseteq Nat, T # {}
    PROVE  \E i \in T : \A j \in T : i <= j
<1> DEFINE R == OpToRel(<, Nat)
<1>1. \A x, y \in Nat : y < x => <<y, x>> \in R
  BY DEF OpToRel
<1>2. IsWellFoundedOn(R, Nat)
  BY NatLessThanWellFounded
<1> HIDE DEF R
<1>3. PICK i \in T : \A j \in T : ~ (<<j, i>> \in R)
  BY <1>2, WFMin
<1>4. \A j \in T : ~ (j < i)
  BY <1>1, <1>3
<1> QED
  BY <1>4

\* A finite set of numbers has an n-th one for every n up to its size.
LEMMA NthRank ==
    ASSUME NEW m \in Nat, NEW S, S \subseteq 1..m, NEW n \in 1..Cardinality(S)
    PROVE  Nth(S, n) \in S /\ Rank(S, Nth(S, n)) = n
<1> DEFINE Upto(i) == {j \in S : j <= i}
<1>1. \A j \in S : j \in Nat /\ 1 <= j /\ j <= m
  OBVIOUS
<1>2. IsFiniteSet(S) /\ Cardinality(S) \in Nat
  <2>1. IsFiniteSet(1..m)
    BY FS_Interval
  <2>2. IsFiniteSet(S)
    BY <2>1, FS_Subset
  <2> QED
    BY <2>2, FS_CardinalityType
<1>3. \A i \in Nat : IsFiniteSet(Upto(i)) /\ Cardinality(Upto(i)) \in Nat
  BY <1>2, FS_Subset, FS_CardinalityType
<1>4. Upto(0) = {} /\ Upto(m) = S
  <2>1. \A j \in S : ~ (j <= 0) /\ j <= m
    BY <1>1
  <2> QED
    BY <2>1, Zenon
<1>5. ASSUME NEW i \in Nat, i # 0
      PROVE  /\ i - 1 \in Nat
             /\ i \notin S => Upto(i) = Upto(i - 1)
             /\ i \in S => Upto(i) = Upto(i - 1) \cup {i} /\ i \notin Upto(i - 1)
  <2>1. i - 1 \in Nat /\ ~ (i <= i - 1) /\ i <= i
    BY <1>5
  <2>2. \A j \in S : j <= i <=> j <= i - 1 \/ j = i
    BY <1>1, <1>5
  <2> QED
    BY <2>1, <2>2, Zenon
<1> HIDE DEF Upto
<1>6. PICK i \in Nat : /\ Cardinality(Upto(i)) >= n
                      /\ \A k \in Nat : Cardinality(Upto(k)) >= n => i <= k
  <2> DEFINE T == {i \in Nat : Cardinality(Upto(i)) >= n}
  <2>1. T \subseteq Nat /\ m \in T
    BY <1>2, <1>4
  <2>2. \E i \in T : \A k \in T : i <= k
    BY <2>1, LeastNatural
  <2> QED
    BY <2>2
<1>7. i # 0
  <2>1. Cardinality(Upto(0)) = 0
    BY <1>4, FS_EmptySet
  <2> QED
    BY <1>2, <1>6, <2>1
<1>8. i - 1 \in Nat /\ ~ (Cardinality(Upto(i - 1)) >= n)
  <2>1. i - 1 \in Nat /\ ~ (i <= i - 1)
    BY <1>7
  <2> QED
    BY <1>6, <2>1
<1>9. i \in S
  BY <1>5, <1>6, <1>7, <1>8
<1>10. Cardinality(Upto(i)) = Cardinality(Upto(i - 1)) + 1
  BY <1>3, <1>5, <1>7, <1>8, <1>9, FS_AddElement
<1>11. Cardinality(Upto(i)) = n
  BY <1>2, <1>3, <1>6, <1>8, <1>10
<1> QED
  BY <1>9, <1>11 DEF Nth, Rank, Upto

\* The ranks of larger elements are larger, and ranks start at 1.
LEMMA RankGrows ==
    ASSUME NEW m \in Nat, NEW S, S \subseteq 1..m, NEW i \in S, NEW j \in S
    PROVE  /\ Rank(S, i) \in 1..Cardinality(S)
           /\ i < j => Rank(S, i) < Rank(S, j)
           /\ Rank(S, i) = Rank(S, j) => i = j
<1> DEFINE Upto(k) == {l \in S : l <= k}
<1>1. \A l \in S : l \in Nat
  OBVIOUS
<1>2. IsFiniteSet(S) /\ Cardinality(S) \in Nat
  <2>1. IsFiniteSet(1..m)
    BY FS_Interval
  <2> QED
    BY <2>1, FS_Subset, FS_CardinalityType
<1>3. ASSUME NEW k \in S
      PROVE  /\ IsFiniteSet(Upto(k)) /\ Cardinality(Upto(k)) \in Nat
             /\ Cardinality(Upto(k)) <= Cardinality(S) /\ Cardinality(Upto(k)) >= 1
  <2>1. Upto(k) \subseteq S /\ k \in Upto(k)
    BY <1>1
  <2>2. IsFiniteSet(Upto(k)) /\ Cardinality(Upto(k)) <= Cardinality(S)
    BY <1>2, <2>1, FS_Subset
  <2>3. Cardinality(Upto(k)) \in Nat /\ Cardinality(Upto(k)) # 0
    BY <2>1, <2>2, FS_CardinalityType, FS_EmptySet
  <2> QED
    BY <2>2, <2>3
<1>4. ASSUME NEW k \in S, NEW l \in S, k < l
      PROVE  Cardinality(Upto(k)) < Cardinality(Upto(l))
  <2>0. (\A x \in S : x <= k => x <= l) /\ l <= l /\ ~ (l <= k)
    BY <1>1, <1>4
  <2>1. Upto(k) \subseteq Upto(l) /\ l \in Upto(l) /\ l \notin Upto(k)
    BY <2>0, Zenon
  <2> HIDE DEF Upto
  <2>2. Upto(k) # Upto(l)
    BY <2>1
  <2>3. Cardinality(Upto(k)) <= Cardinality(Upto(l)) /\ Cardinality(Upto(k)) # Cardinality(Upto(l))
    BY <1>3, <2>1, <2>2, FS_Subset
  <2> QED
    BY <1>3, <2>3
<1> HIDE DEF Upto
<1>5. Cardinality(Upto(i)) = Cardinality(Upto(j)) => i = j
  BY <1>1, <1>3, <1>4
<1> QED
  BY <1>2, <1>3, <1>4, <1>5 DEF Rank, Upto

\* The n-th ones come in their order.
LEMMA NthGrows ==
    ASSUME NEW m \in Nat, NEW S, S \subseteq 1..m,
           NEW a \in 1..Cardinality(S), NEW b \in 1..Cardinality(S), a < b
    PROVE  Nth(S, a) < Nth(S, b)
<1>1. PICK i \in S, j \in S : i = Nth(S, a) /\ j = Nth(S, b) /\ Rank(S, i) = a /\ Rank(S, j) = b
  BY NthRank
<1>2. j < i => Rank(S, j) < Rank(S, i)
  BY RankGrows
<1>3. i \in Nat /\ j \in Nat /\ a \in Int /\ b \in Int
  OBVIOUS
<1> QED
  BY <1>1, <1>2, <1>3

\* Every element of a finite set of numbers is the n-th one for some n.
LEMMA NthOnto ==
    ASSUME NEW m \in Nat, NEW S, S \subseteq 1..m, NEW i \in S
    PROVE  \E n \in 1..Cardinality(S) : Nth(S, n) = i
<1>1. Rank(S, i) \in 1..Cardinality(S)
  BY RankGrows
<1>2. Nth(S, Rank(S, i)) \in S /\ Rank(S, Nth(S, Rank(S, i))) = Rank(S, i)
  BY <1>1, NthRank
<1>3. Nth(S, Rank(S, i)) = i
  BY <1>2, RankGrows
<1> QED
  BY <1>1, <1>3

-----------------------------------------------------------------------------
(* Lists.                                                                  *)

\* The elements of a list at some places are a list of them, in their order.
LEMMA SublistType ==
    ASSUME NEW E, NEW s \in Seq(E), NEW I, I \subseteq DOMAIN s
    PROVE  /\ Cardinality(I) \in Nat /\ Cardinality(I) <= Len(s)
           /\ Sublist(s, I) \in Seq({s[i] : i \in I}) /\ Sublist(s, I) \in Seq(E)
           /\ Len(Sublist(s, I)) = Cardinality(I)
           /\ \A n \in 1..Cardinality(I) : Nth(I, n) \in I /\ Sublist(s, I)[n] = s[Nth(I, n)]
<1> DEFINE m == Len(s)
<1>1. m \in Nat /\ DOMAIN s = 1..m /\ I \subseteq 1..m /\ \A i \in I : s[i] \in E
  OBVIOUS
<1> HIDE DEF m
<1>2. Cardinality(I) \in Nat /\ Cardinality(I) <= m
  <2>1. IsFiniteSet(1..m) /\ Cardinality(1..m) = m
    BY <1>1, FS_Interval
  <2>2. IsFiniteSet(I) /\ Cardinality(I) <= Cardinality(1..m)
    BY <1>1, <2>1, FS_Subset
  <2> QED
    BY <2>1, <2>2, FS_CardinalityType
<1>3. \A n \in 1..Cardinality(I) : Nth(I, n) \in I
  BY <1>1, NthRank
<1>4. Sublist(s, I) = [n \in 1..Cardinality(I) |-> s[Nth(I, n)]]
  BY DEF Sublist
<1> DEFINE c == Cardinality(I)
<1> HIDE DEF c
<1>5. Sublist(s, I) \in [1..c -> {s[i] : i \in I}] /\ Sublist(s, I) \in [1..c -> E]
  BY <1>1, <1>3, <1>4 DEF c
<1>6. /\ Sublist(s, I) \in Seq({s[i] : i \in I}) /\ Sublist(s, I) \in Seq(E)
      /\ Len(Sublist(s, I)) = c
  BY <1>2, <1>5 DEF c
<1> QED
  BY <1>2, <1>3, <1>4, <1>6 DEF m, c

\* A list without one of its elements: what is at each place.
LEMMA RemoveAtPlaces ==
    ASSUME NEW S, NEW s \in Seq(S), NEW i \in DOMAIN s
    PROVE  /\ RemoveAt(s, i) \in Seq(S)
           /\ Len(RemoveAt(s, i)) = Len(s) - 1
           /\ \A j \in 1..(Len(s) - 1) : RemoveAt(s, i)[j] = IF j < i THEN s[j] ELSE s[j + 1]
<1> DEFINE a == SubSeq(s, 1, i - 1)
           b == SubSeq(s, i + 1, Len(s))
<1>1. i \in 1..Len(s) /\ Len(s) \in Nat
  OBVIOUS
<1>2. a \in Seq(S) /\ Len(a) = i - 1 /\ \A j \in 1..(i - 1) : a[j] = s[j]
  BY <1>1
<1>3. b \in Seq(S) /\ Len(b) = Len(s) - i /\ \A j \in 1..(Len(s) - i) : b[j] = s[i + j]
  BY <1>1
<1>4. RemoveAt(s, i) = a \o b
  BY DEF RemoveAt
<1> HIDE DEF a, b
<1>5. /\ a \o b \in Seq(S) /\ Len(a \o b) = Len(s) - 1
  BY <1>1, <1>2, <1>3
<1>6. ASSUME NEW j \in 1..(Len(s) - 1) PROVE (a \o b)[j] = IF j < i THEN s[j] ELSE s[j + 1]
  BY <1>1, <1>2, <1>3
<1> QED
  BY <1>4, <1>5, <1>6

\* A list of different elements without one of them.
LEMMA RemoveAtOnce ==
    ASSUME NEW S, NEW s \in Seq(S), IsInjective(s), NEW i \in DOMAIN s
    PROVE  IsInjective(RemoveAt(s, i)) /\ ToSet(RemoveAt(s, i)) = ToSet(s) \ {s[i]}
<1> DEFINE r == RemoveAt(s, i)
<1>1. /\ r \in Seq(S) /\ Len(r) = Len(s) - 1 /\ Len(s) \in Nat /\ i \in 1..Len(s)
      /\ \A j \in 1..(Len(s) - 1) : r[j] = IF j < i THEN s[j] ELSE s[j + 1]
  BY RemoveAtPlaces
<1> HIDE DEF r
<1>2. DOMAIN r = 1..(Len(s) - 1) /\ DOMAIN s = 1..Len(s)
  BY <1>1
<1>3. \A j, k \in 1..Len(s) : s[j] = s[k] => j = k
  BY <1>2 DEF IsInjective
<1>4. IsInjective(r)
  BY <1>1, <1>2, <1>3 DEF IsInjective
<1>5. ASSUME NEW j \in 1..Len(s), j # i
      PROVE  \E k \in 1..(Len(s) - 1) : r[k] = s[j]
  <2>1. CASE j < i
    BY <1>1, <2>1
  <2>2. CASE j > i
    <3>1. j - 1 \in 1..(Len(s) - 1) /\ r[j - 1] = s[j]
      BY <1>1, <2>2
    <3> QED
      BY <3>1
  <2> QED
    BY <1>1, <1>5, <2>1, <2>2
<1>6. ASSUME NEW k \in 1..(Len(s) - 1)
      PROVE  \E j \in 1..Len(s) : j # i /\ r[k] = s[j]
  <2>1. k < i => k \in 1..Len(s) /\ k # i /\ r[k] = s[k]
    BY <1>1
  <2>2. ~ (k < i) => k + 1 \in 1..Len(s) /\ k + 1 # i /\ r[k] = s[k + 1]
    BY <1>1
  <2> QED
    BY <2>1, <2>2
<1>7. ToSet(r) = ToSet(s) \ {s[i]}
  <2>1. ASSUME NEW x \in ToSet(r) PROVE x \in ToSet(s) \ {s[i]}
    <3>1. PICK k \in 1..(Len(s) - 1) : x = r[k]
      BY <1>2, <2>1 DEF ToSet
    <3>2. PICK j \in 1..Len(s) : j # i /\ r[k] = s[j]
      BY <1>6
    <3> QED
      BY <1>1, <1>2, <1>3, <3>1, <3>2 DEF ToSet
  <2>2. ASSUME NEW x \in ToSet(s) \ {s[i]} PROVE x \in ToSet(r)
    <3>1. PICK j \in 1..Len(s) : x = s[j]
      BY <1>2, <2>2 DEF ToSet
    <3>2. PICK k \in 1..(Len(s) - 1) : r[k] = s[j]
      BY <1>5, <2>2, <3>1
    <3> QED
      BY <1>2, <3>1, <3>2 DEF ToSet
  <2> QED
    BY <2>1, <2>2
<1> QED
  BY <1>4, <1>7 DEF r

\* Sublist does what it is for: it keeps the elements at the places it is given, each once
\* and in their order.
LEMMA SublistKeeps ==
    ASSUME NEW E, NEW s \in Seq(E), NEW I, I \subseteq DOMAIN s
    PROVE  IsSublistAt(Sublist(s, I), s, I)
<1>1. /\ Sublist(s, I) \in Seq(E) /\ Len(Sublist(s, I)) = Cardinality(I)
      /\ Cardinality(I) \in Nat
  BY SublistType
<1>2. PICK m \in Nat : m = Len(s) /\ I \subseteq 1..m
  OBVIOUS
<1>3. \A n \in 1..Cardinality(I) : Nth(I, n) \in I /\ Sublist(s, I)[n] = s[Nth(I, n)]
  BY <1>2, NthRank DEF Sublist
<1> DEFINE c == Cardinality(I)
           l == Sublist(s, I)
           place == [n \in 1..c |-> Nth(I, n)]
<1> HIDE DEF c, l
<1>4. /\ DOMAIN l = 1..c
      /\ \A n \in 1..c : Nth(I, n) \in I /\ l[n] = s[Nth(I, n)]
  BY <1>1, <1>3 DEF l, c
<1>5. place \in [DOMAIN l -> I] /\ \A n \in DOMAIN l : l[n] = s[place[n]]
  BY <1>4
<1>6. \A a, b \in DOMAIN l : a < b => place[a] < place[b]
  BY <1>4, <1>2, NthGrows DEF c
<1>7. \A i \in I : \E n \in DOMAIN l : place[n] = i
  BY <1>4, <1>2, NthOnto DEF c
<1> QED
  BY <1>5, <1>6, <1>7 DEF IsSublistAt, l

\* Without one more element it consists of the other places' elements.
LEMMA SublistRemoves ==
    ASSUME NEW E, NEW l \in Seq(E), NEW s, NEW I, I \subseteq Nat, IsSublistAt(l, s, I),
           NEW p \in DOMAIN l
    PROVE  \E i \in I : l[p] = s[i] /\ IsSublistAt(RemoveAt(l, p), s, I \ {i})
<1> DEFINE r == RemoveAt(l, p)
           k == Len(l)
<1>1. PICK place \in [DOMAIN l -> I] :
         /\ \A n \in DOMAIN l : l[n] = s[place[n]]
         /\ \A m, n \in DOMAIN l : m < n => place[m] < place[n]
         /\ \A i \in I : \E n \in DOMAIN l : place[n] = i
  BY DEF IsSublistAt
<1>2. k \in Nat /\ DOMAIN l = 1..k /\ p \in 1..k
  OBVIOUS
<1>3. DOMAIN r = 1..(k - 1) /\ \A n \in 1..(k - 1) : r[n] = IF n < p THEN l[n] ELSE l[n + 1]
  BY RemoveAtPlaces
<1> HIDE DEF r, k
<1> DEFINE from(n) == IF n < p THEN n ELSE n + 1
<1>4. \A n \in 1..(k - 1) : from(n) \in 1..k /\ from(n) # p /\ r[n] = l[from(n)]
  BY <1>2, <1>3
<1>5. \A m, n \in 1..(k - 1) : m < n => from(m) < from(n)
  BY <1>2
<1>6. \A n \in 1..k : n # p => \E m \in 1..(k - 1) : from(m) = n
  <2> SUFFICES ASSUME NEW n \in 1..k, n # p PROVE \E m \in 1..(k - 1) : from(m) = n
    OBVIOUS
  <2>1. n < p => n \in 1..(k - 1) /\ from(n) = n
    BY <1>2
  <2>2. ~ (n < p) => n - 1 \in 1..(k - 1) /\ from(n - 1) = n
    BY <1>2
  <2> QED
    BY <2>1, <2>2, Zenon
<1> HIDE DEF from
<1>7. \A m, n \in 1..k : place[m] = place[n] => m = n
  <2> SUFFICES ASSUME NEW m \in 1..k, NEW n \in 1..k, m # n PROVE place[m] # place[n]
    OBVIOUS
  <2>1. place[m] \in Nat /\ place[n] \in Nat
    BY <1>1, <1>2
  <2>2. (m < n \/ n < m) /\ (m < n => place[m] < place[n]) /\ (n < m => place[n] < place[m])
    BY <1>1, <1>2
  <2> QED
    BY <2>1, <2>2
<1> DEFINE i == place[p]
           rest == [n \in 1..(k - 1) |-> place[from(n)]]
<1>8. i \in I /\ l[p] = s[i]
  BY <1>1, <1>2
<1>9. rest \in [DOMAIN r -> I \ {i}] /\ \A n \in DOMAIN r : r[n] = s[rest[n]]
  BY <1>1, <1>2, <1>3, <1>4, <1>7
<1>10. \A m, n \in DOMAIN r : m < n => rest[m] < rest[n]
  BY <1>1, <1>2, <1>3, <1>4, <1>5
<1>11. \A j \in I \ {i} : \E n \in DOMAIN r : rest[n] = j
  <2> SUFFICES ASSUME NEW j \in I \ {i} PROVE \E n \in 1..(k - 1) : rest[n] = j
    BY <1>3
  <2>1. PICK n \in 1..k : place[n] = j
    BY <1>1, <1>2
  <2>2. PICK m \in 1..(k - 1) : from(m) = n
    BY <1>6, <2>1
  <2> QED
    BY <2>1, <2>2
<1> HIDE DEF rest, i
<1>12. IsSublistAt(r, s, I \ {i})
  BY <1>9, <1>10, <1>11 DEF IsSublistAt
<1> QED
  BY <1>8, <1>12 DEF r

\* The concatenation of lists over S is a list over S, and is empty if all of them are.
LEMMA FlattenType ==
    ASSUME NEW S, NEW seqs \in Seq(Seq(S))
    PROVE  /\ FlattenSeq(seqs) \in Seq(S)
           /\ (\A i \in DOMAIN seqs : seqs[i] = <<>>) => FlattenSeq(seqs) = <<>>
<1> DEFINE N == Len(seqs)
           Is(f, n) == f = [i \in 1..n |-> IF i = 1 THEN seqs[i] ELSE f[i - 1] \o seqs[i]]
<1>1. N \in Nat /\ DOMAIN seqs = 1..N /\ \A i \in 1..N : seqs[i] \in Seq(S)
  OBVIOUS
<1>2. CASE N = 0
  <2>1. FlattenSeq(seqs) = seqs
    BY <1>2, Zenon DEF FlattenSeq
  <2> QED
    BY <1>2, <2>1
<1>3. CASE N # 0
  <2>1. FlattenSeq(seqs) = (CHOOSE f : Is(f, N))[N]
    BY <1>3 DEF FlattenSeq
  <2> DEFINE Some(n) == \E f : Is(f, n)
  <2>2. Some(1)
    <3>1. Is([i \in 1..1 |-> seqs[1]], 1)
      OBVIOUS
    <3> QED
      BY <3>1
  <2>3. ASSUME NEW m \in 2..N, Some(m - 1) PROVE Some(m)
    <3>1. PICK f : Is(f, m - 1)
      BY <2>3
    <3> DEFINE g == [i \in 1..m |-> IF i < m THEN f[i] ELSE f[m - 1] \o seqs[m]]
    <3>2. ASSUME NEW i \in 1..m
          PROVE  g[i] = IF i = 1 THEN seqs[i] ELSE g[i - 1] \o seqs[i]
      <4>1. CASE i < m
        <5>1. i \in 1..(m - 1) /\ (i # 1 => i - 1 \in 1..m /\ i - 1 < m)
          BY <1>1, <4>1
        <5>2. f[i] = IF i = 1 THEN seqs[i] ELSE f[i - 1] \o seqs[i]
          BY <3>1, <5>1
        <5> QED
          BY <4>1, <5>1, <5>2
      <4>2. CASE ~ (i < m)
        <5>1. i = m /\ i # 1 /\ m - 1 \in 1..m /\ m - 1 < m
          BY <1>1, <4>2
        <5> QED
          BY <4>2, <5>1
      <4> QED
        BY <4>1, <4>2
    <3>3. Is(g, m)
      BY <3>2
    <3> QED
      BY <3>3
  <2> HIDE DEF Is, Some
  <2>4. Some(N)
    <3> DEFINE T == {m \in 1..N : ~ Some(m)}
    <3>1. ASSUME T # {} PROVE FALSE
      <4>1. PICK m \in T : \A j \in T : m <= j
        <5>1. T \subseteq Nat
          BY <1>1
        <5> QED
          BY <3>1, <5>1, LeastNatural
      <4>2. m \in 2..N /\ m - 1 \in 1..N /\ ~ (m <= m - 1) /\ ~ Some(m)
        BY <1>1, <2>2, <4>1
      <4> QED
        BY <2>3, <4>1, <4>2
    <3> QED
      BY <1>1, <1>3, <3>1
  <2> DEFINE F == CHOOSE f : Is(f, N)
  <2>5. Is(F, N)
    BY <2>4, Zenon DEF Some
  <2> HIDE DEF F
  <2>6. \A i \in 1..N : F[i] = IF i = 1 THEN seqs[i] ELSE F[i - 1] \o seqs[i]
    BY <2>5 DEF Is
  <2> DEFINE Fine(l) == l \in Seq(S) /\ ((\A i \in DOMAIN seqs : seqs[i] = <<>>) => l = <<>>)
             T == {i \in 1..N : ~ Fine(F[i])}
  <2>7. Fine(F[1])
    BY <1>1, <1>3, <2>6
  <2>8. ASSUME NEW m \in 2..N, Fine(F[m - 1]) PROVE Fine(F[m])
    <3>0. m \in 1..N /\ m # 1
      BY <1>1
    <3>1. F[m] = F[m - 1] \o seqs[m] /\ seqs[m] \in Seq(S)
      BY <1>1, <2>6, <3>0
    <3>2. F[m] \in Seq(S)
      BY <2>8, <3>1
    <3>3. ASSUME \A i \in DOMAIN seqs : seqs[i] = <<>> PROVE F[m] = <<>>
      <4>1. F[m - 1] = <<>> /\ seqs[m] = <<>>
        BY <1>1, <2>8, <3>0, <3>3, Zenon
      <4> QED
        BY <3>1, <4>1
    <3> QED
      BY <3>2, <3>3
  <2> HIDE DEF Fine
  <2>9. ASSUME T # {} PROVE FALSE
    <3>1. PICK m \in T : \A j \in T : m <= j
      <4>1. T \subseteq Nat
        BY <1>1
      <4> QED
        BY <2>9, <4>1, LeastNatural
    <3>2. m \in 2..N /\ m - 1 \in 1..N /\ ~ (m <= m - 1) /\ ~ Fine(F[m])
      BY <1>1, <2>7, <3>1
    <3> QED
      BY <2>8, <3>1, <3>2
  <2>10. Fine(F[N])
    BY <1>1, <1>3, <2>9
  <2> QED
    BY <2>1, <2>10 DEF F, Fine
<1> QED
  BY <1>2, <1>3

-----------------------------------------------------------------------------

\* Sets that shrink or grow by one element at most.
LEMMA SizeGrows ==
    ASSUME NEW A, NEW B, IsFiniteSet(A), NEW x, B \subseteq A \cup {x}
    PROVE  /\ IsFiniteSet(B) /\ Cardinality(A) \in Nat /\ Cardinality(B) \in Nat
           /\ Cardinality(B) <= Cardinality(A) + 1
           /\ B \subseteq A => Cardinality(B) <= Cardinality(A)
<1>1. Cardinality(A) \in Nat
  BY FS_CardinalityType
<1>2. /\ IsFiniteSet(A \cup {x})
      /\ Cardinality(A \cup {x}) = IF x \in A THEN Cardinality(A) ELSE Cardinality(A) + 1
  BY FS_AddElement
<1>3. IsFiniteSet(B) /\ Cardinality(B) <= Cardinality(A \cup {x})
  BY <1>2, FS_Subset
<1>4. Cardinality(B) \in Nat
  BY <1>3, FS_CardinalityType
<1>5. B \subseteq A => Cardinality(B) <= Cardinality(A)
  BY FS_Subset
<1>6. Cardinality(B) <= Cardinality(A) + 1
  BY <1>1, <1>2, <1>3, <1>4
<1> QED
  BY <1>1, <1>3, <1>4, <1>5, <1>6
=============================================================================
