---------------------------- MODULE FilterProofs ----------------------------
(***************************************************************************)
(* What a filter gives: elements of the sequence in their order, each of   *)
(* those that were to be kept, and none twice that was there once.  What   *)
(* is kept of two sequences joined is what is kept of each, joined.        *)
(***************************************************************************)
EXTENDS Filters, FiniteSetTheorems, SequenceTheorems, TLAPS

\* The members of a finite set of indexes are numbered from 1 on.
LEMMA Ranks ==
    ASSUME NEW n \in Nat, NEW I \in SUBSET (1..n)
    PROVE  /\ Cardinality(I) \in Nat
           /\ \A k \in 1..Cardinality(I) : \E i \in I : Cardinality({j \in I : j <= i}) = k
           /\ \A i \in I : Cardinality({j \in I : j <= i}) \in 1..Cardinality(I)
           /\ \A i, j \in I : Cardinality({k \in I : k <= i}) = Cardinality({k \in I : k <= j}) => i = j
  <1>0. \A i \in I : i \in Nat
    OBVIOUS
  <1> DEFINE rank == [i \in I |-> Cardinality({j \in I : j <= i})]
  <1>1. IsFiniteSet(I) /\ Cardinality(I) \in Nat
    <2>1. IsFiniteSet(1..n)
      BY FS_Interval
    <2>2. IsFiniteSet(I)
      BY <2>1, FS_Subset
    <2> QED
      BY <2>2, FS_CardinalityType
  <1>2. ASSUME NEW i \in I PROVE rank[i] \in 1..Cardinality(I) /\ IsFiniteSet({j \in I : j <= i})
    <2>1. {j \in I : j <= i} \in SUBSET I /\ i \in {j \in I : j <= i}
      OBVIOUS
    <2>2. IsFiniteSet({j \in I : j <= i}) /\ rank[i] <= Cardinality(I)
      BY <1>1, <2>1, FS_Subset
    <2>3. rank[i] \in Nat /\ rank[i] # 0
      BY <2>1, <2>2, FS_CardinalityType, FS_EmptySet
    <2> QED
      BY <1>1, <2>2, <2>3
  <1>3. ASSUME NEW i \in I, NEW j \in I, rank[i] = rank[j], i < j PROVE FALSE
    <2>0. \A k \in I : k <= i => k <= j
      BY <1>0, <1>3
    <2>1. {k \in I : k <= i} \in SUBSET {k \in I : k <= j}
      BY <2>0
    <2>2. {k \in I : k <= i} = {k \in I : k <= j}
      BY <1>2, <1>3, <2>1, FS_Subset
    <2>3. j \in {k \in I : k <= j} /\ j \notin {k \in I : k <= i}
      BY <1>3
    <2> QED
      BY <2>2, <2>3
  <1>4. rank \in [I -> 1..Cardinality(I)]
    BY <1>2
  <1>5. \A i, j \in I : rank[i] = rank[j] => i = j
    <2> SUFFICES ASSUME NEW i \in I, NEW j \in I, rank[i] = rank[j], i # j PROVE FALSE
      OBVIOUS
    <2>1. i < j \/ j < i
      OBVIOUS
    <2> QED
      BY <1>3, <2>1
  <1> HIDE DEF rank
  <1>6. rank \in Injection(I, 1..Cardinality(I))
    BY <1>4, <1>5 DEF Injection, IsInjective
  <1>7. IsFiniteSet(1..Cardinality(I)) /\ Cardinality(1..Cardinality(I)) = Cardinality(I)
    <2>1. Cardinality(I) \in Int /\ 1 \in Int
      BY <1>1
    <2>2. /\ IsFiniteSet(1..Cardinality(I))
          /\ Cardinality(1..Cardinality(I)) = IF 1 > Cardinality(I) THEN 0 ELSE Cardinality(I) - 1 + 1
      BY <2>1, FS_Interval
    <2> QED
      BY <1>1, <2>2
  <1>8. rank \in Surjection(I, 1..Cardinality(I))
    BY <1>6, <1>7, FS_Injection
  <1>9. \A k \in 1..Cardinality(I) : \E i \in I : rank[i] = k
    BY <1>8 DEF Surjection
  <1> QED
    BY <1>1, <1>2, <1>5, <1>9 DEF rank

\* The k-th element that is kept is that of rank k.
LEMMA KeptGives ==
    ASSUME NEW T, NEW s \in Seq(T), NEW I \in SUBSET (1..Len(s))
    PROVE  /\ Kept(s, I) \in Seq(T)
           /\ Len(Kept(s, I)) <= Len(s)
           /\ \E at \in [DOMAIN Kept(s, I) -> I] :
                 /\ \A k \in DOMAIN Kept(s, I) : Kept(s, I)[k] = s[at[k]]
                 /\ \A i \in I : \E k \in DOMAIN Kept(s, I) : at[k] = i
                 /\ \A k, l \in DOMAIN Kept(s, I) : at[k] = at[l] => k = l
                 /\ \A k, l \in DOMAIN Kept(s, I) : k < l => at[k] < at[l]
  <1> DEFINE rank(i) == Cardinality({j \in I : j <= i})
             n == Cardinality(I)
             at == [k \in 1..n |-> CHOOSE i \in I : rank(i) = k]
  <1>1. Len(s) \in Nat /\ \A i \in I : s[i] \in T /\ i \in Nat
    BY LenProperties, ElementOfSeq
  <1>2. /\ n \in Nat
        /\ \A k \in 1..n : \E i \in I : rank(i) = k
        /\ \A i \in I : rank(i) \in 1..n
        /\ \A i, j \in I : rank(i) = rank(j) => i = j
    BY <1>1, Ranks
  <1>3. \A i, j \in I : i <= j => rank(i) <= rank(j)
    <2>1. IsFiniteSet(I)
      <3>1. IsFiniteSet(1..Len(s))
        BY <1>1, FS_Interval
      <3>2. QED
        BY <3>1, FS_Subset
    <2>2. ASSUME NEW i \in I, NEW j \in I, i <= j
          PROVE  Cardinality({m \in I : m <= i}) <= Cardinality({m \in I : m <= j})
      <3>1. {m \in I : m <= i} \subseteq {m \in I : m <= j} /\ {m \in I : m <= j} \subseteq I
        <4>1. \A m \in I : m <= i => m <= j
          BY <1>1, <2>2
        <4>2. QED
          BY <4>1
      <3>2. IsFiniteSet({m \in I : m <= j})
        BY <2>1, <3>1, FS_Subset
      <3>3. QED
        BY <3>1, <3>2, FS_Subset
    <2>3. QED
      BY <2>2
  <1>4. Kept(s, I) = [k \in 1..n |-> s[at[k]]]
    BY DEF Kept
  <1> HIDE DEF rank, n
  <1>5. at \in [1..n -> I] /\ \A k \in 1..n : rank(at[k]) = k
    BY <1>2
  <1> HIDE DEF at
  <1>6. Kept(s, I) \in [1..n -> T]
    BY <1>1, <1>4, <1>5
  <1>7. Kept(s, I) \in Seq(T) /\ Len(Kept(s, I)) = n /\ DOMAIN Kept(s, I) = 1..n
    BY <1>2, <1>6
  <1>8. n <= Len(s)
    <2>1. PICK l \in Nat : l = Len(s)
      BY <1>1
    <2>2. IsFiniteSet(1..l) /\ Cardinality(1..l) = l
      BY FS_Interval
    <2>3. QED
      BY <2>1, <2>2, FS_Subset DEF n
  <1>9. \A i \in I : \E k \in 1..n : at[k] = i
    <2>1. \A i \in I : rank(at[rank(i)]) = rank(i) /\ at[rank(i)] \in I /\ rank(i) \in 1..n
      BY <1>2, <1>5
    <2>2. QED
      BY <1>2, <2>1
  <1>10. \A k, l \in 1..n : at[k] = at[l] => k = l
    BY <1>5
  <1>11. ASSUME NEW k \in 1..n, NEW l \in 1..n, k < l
         PROVE  at[k] < at[l]
    <2>1. at[k] \in I /\ at[l] \in I /\ at[k] \in Nat /\ at[l] \in Nat
      BY <1>1, <1>5
    <2>2. at[l] <= at[k] => l <= k
      BY <1>3, <1>5, <2>1
    <2>3. k \in Nat /\ l \in Nat
      BY <1>2
    <2>4. QED
      BY <1>11, <2>1, <2>2, <2>3
  <1>12. \A k \in 1..n : Kept(s, I)[k] = s[at[k]]
    BY <1>4
  <1>13. QED
    BY <1>5, <1>7, <1>8, <1>9, <1>10, <1>11, <1>12

\* No element, or none of those in es, is at two places.
NoneTwice(s) == \A i, j \in DOMAIN s : s[i] = s[j] => i = j
EachOnce(s, es) == \A i, j \in DOMAIN s : s[i] = s[j] /\ s[i] \in es => i = j

Contents(s) == {s[i] : i \in DOMAIN s}

LEMMA AmongGives ==
    ASSUME NEW T, NEW s \in Seq(T), NEW es
    PROVE  /\ Among(s, es) \in Seq(T)
           /\ Contents(Among(s, es)) = Contents(s) \cap es
           /\ EachOnce(s, es) => NoneTwice(Among(s, es))
  <1>1. PICK I : I = {i \in DOMAIN s : s[i] \in es}
    OBVIOUS
  <1>2. I \in SUBSET (1..Len(s)) /\ DOMAIN s = 1..Len(s) /\ \A i \in DOMAIN s : i \in I <=> s[i] \in es
    BY <1>1
  <1>3. /\ Kept(s, I) \in Seq(T)
        /\ \E at \in [DOMAIN Kept(s, I) -> I] :
              /\ \A k \in DOMAIN Kept(s, I) : Kept(s, I)[k] = s[at[k]]
              /\ \A i \in I : \E k \in DOMAIN Kept(s, I) : at[k] = i
              /\ \A k, l \in DOMAIN Kept(s, I) : at[k] = at[l] => k = l
    <2>1. I \in SUBSET (1..Len(s))
      BY <1>2
    <2>2. QED
      BY <2>1, KeptGives, Zenon
  <1>4. PICK f \in Seq(T) : f = Kept(s, I) /\ f = Among(s, es)
    BY <1>1, <1>3 DEF Among
  <1>5. PICK at \in [DOMAIN f -> I] :
            /\ \A k \in DOMAIN f : f[k] = s[at[k]]
            /\ \A i \in I : \E k \in DOMAIN f : at[k] = i
            /\ \A k, l \in DOMAIN f : at[k] = at[l] => k = l
    BY <1>3, <1>4
  <1>6. \A k \in DOMAIN f : at[k] \in DOMAIN s /\ f[k] \in es /\ f[k] = s[at[k]]
    BY <1>2, <1>5
  <1>7. Contents(f) = Contents(s) \cap es
    <2>1. Contents(f) \subseteq Contents(s) \cap es
      BY <1>6 DEF Contents
    <2>2. ASSUME NEW e \in Contents(s) \cap es
          PROVE  e \in Contents(f)
      <3>1. PICK i \in I : e = s[i]
        BY <1>2, <2>2 DEF Contents
      <3>2. PICK k \in DOMAIN f : at[k] = i
        BY <1>5
      <3>3. QED
        BY <1>5, <3>1, <3>2 DEF Contents
    <2>3. QED
      BY <2>1, <2>2
  <1>8. ASSUME EachOnce(s, es) PROVE NoneTwice(f)
    <2>1. ASSUME NEW k \in DOMAIN f, NEW l \in DOMAIN f, f[k] = f[l]
          PROVE  k = l
      <3>1. at[k] = at[l]
        BY <1>6, <1>8, <2>1 DEF EachOnce
      <3>2. QED
        BY <1>5, <3>1
    <2>2. QED
      BY <2>1 DEF NoneTwice
  <1>9. QED
    BY <1>4, <1>7, <1>8

\* The largest of some indexes.
LEMMA LargestExists ==
    ASSUME NEW n \in Nat, NEW I \in SUBSET (1..n), I # {}
    PROVE  \E i \in I : \A j \in I : j <= i
  <1>1. IsFiniteSet(I) /\ Cardinality(I) \in Nat
    <2>1. IsFiniteSet(1..n)
      BY FS_Interval
    <2>2. IsFiniteSet(I)
      BY <2>1, FS_Subset
    <2> QED
      BY <2>2, FS_CardinalityType
  <1>2. Cardinality(I) \in 1..Cardinality(I)
    <2>1. Cardinality(I) # 0
      BY <1>1, FS_EmptySet
    <2> QED
      BY <1>1, <2>1
  <1>3. PICK i \in I : Cardinality({j \in I : j <= i}) = Cardinality(I)
    BY <1>2, Ranks
  <1>4. {j \in I : j <= i} = I
    <2>1. {j \in I : j <= i} \in SUBSET I
      OBVIOUS
    <2> QED
      BY <1>1, <1>3, <2>1, FS_Subset
  <1> QED
    BY <1>4

\* f is what is kept of s at I, its k-th element being the one at a[k].
FilteredBy(s, I, f, a) ==
    /\ \A k \in DOMAIN f : f[k] = s[a[k]]
    /\ \A i \in I : \E k \in DOMAIN f : a[k] = i
    /\ \A k, l \in DOMAIN f : k < l => a[k] < a[l]

IndexesAmong(s, es, I) == I = {i \in DOMAIN s : s[i] \in es}

LEMMA AmongAt ==
    ASSUME NEW T, NEW s \in Seq(T), NEW es, NEW I, IndexesAmong(s, es, I)
    PROVE  \E a \in [DOMAIN Among(s, es) -> I] : FilteredBy(s, I, Among(s, es), a)
  <1>1. I \in SUBSET (1..Len(s)) /\ Kept(s, I) = Among(s, es)
    BY LenProperties DEF Among, IndexesAmong
  <1>2. I \in SUBSET (1..Len(s))
    BY <1>1
  <1>3. /\ Kept(s, I) \in Seq(T)
        /\ Len(Kept(s, I)) <= Len(s)
        /\ \E at \in [DOMAIN Kept(s, I) -> I] :
              /\ \A k \in DOMAIN Kept(s, I) : Kept(s, I)[k] = s[at[k]]
              /\ \A i \in I : \E k \in DOMAIN Kept(s, I) : at[k] = i
              /\ \A k, l \in DOMAIN Kept(s, I) : at[k] = at[l] => k = l
              /\ \A k, l \in DOMAIN Kept(s, I) : k < l => at[k] < at[l]
    BY <1>2, KeptGives, Zenon
  <1> QED
    BY <1>1, <1>3, Zenon DEF FilteredBy

\* What has the elements that are to be kept in their order is what a filter gives.
LEMMA KeptIs ==
    ASSUME NEW T, NEW s \in Seq(T), NEW I \in SUBSET (1..Len(s)), NEW g \in Seq(T), NEW at \in [DOMAIN g -> I],
           FilteredBy(s, I, g, at)
    PROVE  g = Kept(s, I)
  <1>0. /\ \A k \in DOMAIN g : g[k] = s[at[k]]
        /\ \A i \in I : \E k \in DOMAIN g : at[k] = i
        /\ \A k, l \in DOMAIN g : k < l => at[k] < at[l]
    BY DEF FilteredBy
  <1>1. PICK n \in Nat : n = Len(g) /\ DOMAIN g = 1..n /\ g = [k \in 1..n |-> g[k]]
    BY LenProperties
  <1>2. \A i \in I : i \in Nat
    BY LenProperties
  <1>3. \A k, l \in 1..n : k <= l <=> at[k] <= at[l]
    <2>1. \A k, l \in 1..n : at[k] \in Nat /\ at[l] \in Nat /\ (k < l => at[k] < at[l])
      BY <1>0, <1>1, <1>2
    <2> TAKE k, l \in 1..n
    <2>2. CASE k = l
      BY <2>1, <2>2
    <2>3. CASE k < l
      BY <2>1, <2>3
    <2>4. CASE l < k
      BY <2>1, <2>4
    <2> QED
      BY <1>1, <2>2, <2>3, <2>4
  <1>4. ASSUME NEW k \in 1..n
        PROVE  Cardinality({j \in I : j <= at[k]}) = k
    <2>1. k \in Nat /\ \A l \in 1..k : l \in 1..n /\ l \in DOMAIN g /\ at[l] \in I /\ at[l] <= at[k]
      BY <1>1, <1>3
    <2>2. PICK J : J = {j \in I : j <= at[k]}
      OBVIOUS
    <2>3. PICK f : f = [l \in 1..k |-> at[l]]
      OBVIOUS
    <2>4. f \in [1..k -> J]
      BY <2>1, <2>2, <2>3
    <2>5. \A l, m \in 1..k : f[l] = f[m] => l = m
      <3>1. \A l, m \in 1..k : at[l] = at[m] => l <= m /\ m <= l
        BY <1>2, <1>3, <2>1
      <3> QED
        BY <2>1, <2>3, <3>1
    <2>6. \A j \in J : \E l \in 1..k : f[l] = j
      <3>1. ASSUME NEW j \in J PROVE \E l \in 1..k : f[l] = j
        <4>1. PICK l \in 1..n : at[l] = j /\ at[l] <= at[k]
          BY <1>0, <1>1, <2>2
        <4>2. l <= k
          BY <1>3, <4>1
        <4>3. l \in 1..k
          BY <1>1, <2>1, <4>2
        <4> QED
          BY <2>3, <4>1, <4>3
      <3> QED
        BY <3>1
    <2>7. f \in Injection(1..k, J)
      BY <2>4, <2>5, Zenon DEF Injection, IsInjective
    <2>8. f \in Surjection(1..k, J)
      BY <2>4, <2>6, Zenon DEF Surjection
    <2>9. ExistsBijection(1..k, J)
      BY <2>7, <2>8, Zenon DEF ExistsBijection, Bijection
    <2> QED
      BY <2>1, <2>2, <2>9, FS_CountingElements
  <1>5. Cardinality(I) = n
    <2>1. at \in [1..n -> I] /\ \A i \in I : \E l \in 1..n : at[l] = i
      BY <1>0, <1>1
    <2>2. \A l, m \in 1..n : at[l] = at[m] => l = m
      <3>1. \A l, m \in 1..n : at[l] = at[m] => l <= m /\ m <= l
        BY <1>1, <1>2, <1>3
      <3> QED
        BY <1>1, <3>1
    <2>3. at \in Injection(1..n, I)
      BY <2>1, <2>2, Zenon DEF Injection, IsInjective
    <2>4. at \in Surjection(1..n, I)
      BY <2>1, Zenon DEF Surjection
    <2>5. ExistsBijection(1..n, I)
      BY <2>3, <2>4, Zenon DEF ExistsBijection, Bijection
    <2> QED
      BY <2>5, FS_CountingElements
  <1>6. \A i, j \in I : Cardinality({k \in I : k <= i}) = Cardinality({k \in I : k <= j}) => i = j
    <2>1. PICK m \in Nat : m = Len(s)
      BY LenProperties
    <2>2. I \in SUBSET (1..m)
      BY <2>1
    <2> QED
      BY <2>2, Ranks, Zenon
  <1>7. ASSUME NEW k \in 1..n
        PROVE  (CHOOSE i \in I : Cardinality({j \in I : j <= i}) = k) = at[k]
    <2>1. at[k] \in I /\ Cardinality({j \in I : j <= at[k]}) = k
      BY <1>1, <1>4
    <2>2. PICK i : i = CHOOSE x \in I : Cardinality({j \in I : j <= x}) = k
      OBVIOUS
    <2>3. i \in I /\ Cardinality({j \in I : j <= i}) = k
      BY <2>1, <2>2
    <2>4. i = at[k]
      BY <1>6, <2>1, <2>3
    <2> QED
      BY <2>2, <2>4, Zenon
  <1>8. \A k \in 1..n : g[k] = s[CHOOSE i \in I : Cardinality({j \in I : j <= i}) = k]
    <2> TAKE k \in 1..n
    <2>1. g[k] = s[at[k]]
      BY <1>0, <1>1
    <2>2. (CHOOSE i \in I : Cardinality({j \in I : j <= i}) = k) = at[k]
      BY <1>7
    <2> QED
      BY <2>1, <2>2, Zenon
  <1> QED
    BY <1>1, <1>5, <1>8 DEF Kept

\* The filter of one text after another is that of each, one after the other.
LEMMA AmongJoins ==
    ASSUME NEW T, NEW s \in Seq(T), NEW t \in Seq(T), NEW es
    PROVE  Among(s \o t, es) = Among(s, es) \o Among(t, es)
  <1>0. PICK st \in Seq(T) : st = s \o t
    <2>1. s \o t \in Seq(T)
      OBVIOUS
    <2> QED
      BY <2>1, Zenon
  <1>1. PICK m \in Nat, n \in Nat :
            /\ m = Len(s) /\ n = Len(t)
            /\ DOMAIN s = 1..m /\ DOMAIN t = 1..n /\ DOMAIN st = 1..(m + n) /\ Len(st) = m + n
            /\ \A i \in 1..m : st[i] = s[i]
            /\ \A i \in 1..n : st[m + i] = t[i]
    <2>1. /\ Len(s) \in Nat /\ Len(t) \in Nat /\ DOMAIN s = 1..Len(s) /\ DOMAIN t = 1..Len(t)
          /\ DOMAIN st = 1..(Len(s) + Len(t)) /\ Len(st) = Len(s) + Len(t)
          /\ \A i \in 1..Len(s) : st[i] = s[i]
          /\ \A i \in 1..Len(t) : st[Len(s) + i] = t[i]
      BY <1>0
    <2> QED
      BY <2>1
  <1>2. PICK I, J, K : /\ I = {i \in DOMAIN s : s[i] \in es}
                       /\ J = {i \in DOMAIN t : t[i] \in es}
                       /\ K = {i \in DOMAIN st : st[i] \in es}
    OBVIOUS
  <1>3. I \in SUBSET (1..Len(s)) /\ J \in SUBSET (1..Len(t)) /\ K \in SUBSET (1..Len(st))
    BY <1>1, <1>2
  <1>4. PICK f \in Seq(T), g \in Seq(T) : f = Among(s, es) /\ g = Among(t, es)
    BY AmongGives
  <1>5. /\ \E a \in [DOMAIN f -> I] : FilteredBy(s, I, f, a)
        /\ \E b \in [DOMAIN g -> J] : FilteredBy(t, J, g, b)
    BY <1>2, <1>4, AmongAt DEF IndexesAmong
  <1>51. PICK a \in [DOMAIN f -> I] : FilteredBy(s, I, f, a)
    BY <1>5
  <1>52. PICK b \in [DOMAIN g -> J] : FilteredBy(t, J, g, b)
    BY <1>5
  <1>53. PICK h \in Seq(T) : h = f \o g
    <2>1. f \o g \in Seq(T)
      OBVIOUS
    <2> QED
      BY <2>1, Zenon
  <1>6. PICK p \in Nat, q \in Nat :
            /\ DOMAIN f = 1..p /\ DOMAIN g = 1..q /\ DOMAIN h = 1..(p + q)
            /\ \A k \in 1..p : h[k] = f[k]
            /\ \A k \in 1..q : h[p + k] = g[k]
    <2>1. /\ Len(f) \in Nat /\ Len(g) \in Nat /\ DOMAIN f = 1..Len(f) /\ DOMAIN g = 1..Len(g)
          /\ DOMAIN h = 1..(Len(f) + Len(g))
          /\ \A i \in 1..Len(f) : h[i] = f[i]
          /\ \A i \in 1..Len(g) : h[Len(f) + i] = g[i]
      BY <1>53
    <2> QED
      BY <2>1
  <1>7. PICK c : c = [k \in DOMAIN h |-> IF k <= p THEN a[k] ELSE m + b[k - p]]
    OBVIOUS
  <1>8. \A k \in DOMAIN h : \/ k \in 1..p /\ c[k] = a[k] /\ a[k] \in I /\ h[k] = f[k]
                            \/ ~(k <= p) /\ k - p \in 1..q /\ c[k] = m + b[k - p] /\ b[k - p] \in J /\ h[k] = g[k - p]
    <2> TAKE k \in DOMAIN h
    <2>1. CASE k <= p
      BY <1>6, <1>7, <2>1
    <2>2. CASE ~(k <= p)
      <3>1. k - p \in 1..q /\ k = p + (k - p)
        BY <1>6, <2>2
      <3> QED
        BY <1>6, <1>7, <2>2, <3>1
    <2> QED
      BY <2>1, <2>2
  <1>9. /\ \A i \in I : i \in K /\ i \in 1..m /\ st[i] = s[i]
        /\ \A j \in J : m + j \in K /\ j \in 1..n /\ st[m + j] = t[j]
    <2>1. ASSUME NEW i \in I PROVE i \in K /\ i \in 1..m /\ st[i] = s[i]
      <3>1. i \in 1..m /\ s[i] \in es
        BY <1>1, <1>2
      <3>2. i \in DOMAIN st /\ st[i] = s[i]
        BY <1>1, <3>1
      <3> QED
        BY <1>2, <3>1, <3>2
    <2>2. ASSUME NEW j \in J PROVE m + j \in K /\ j \in 1..n /\ st[m + j] = t[j]
      <3>1. j \in 1..n /\ t[j] \in es
        BY <1>1, <1>2
      <3>2. m + j \in DOMAIN st /\ st[m + j] = t[j]
        BY <1>1, <3>1
      <3> QED
        BY <1>2, <3>1, <3>2
    <2> QED
      BY <2>1, <2>2
  <1>10. \A i \in K : i \in I \/ (i - m \in J /\ m + (i - m) = i)
    <2> TAKE i \in K
    <2>1. CASE i <= m
      BY <1>1, <1>2, <2>1
    <2>2. CASE ~(i <= m)
      <3>1. i - m \in 1..n /\ i = m + (i - m)
        BY <1>1, <1>2, <2>2
      <3> QED
        BY <1>1, <1>2, <3>1
    <2> QED
      BY <2>1, <2>2
  <1>11. c \in [DOMAIN h -> K]
    BY <1>7, <1>8, <1>9
  <1>12. \A k \in DOMAIN h : h[k] = st[c[k]]
    <2> TAKE k \in DOMAIN h
    <2>1. CASE k \in 1..p /\ c[k] = a[k] /\ a[k] \in I /\ h[k] = f[k]
      <3>1. f[k] = s[a[k]]
        BY <1>51, <1>6, <2>1 DEF FilteredBy
      <3> QED
        BY <1>9, <2>1, <3>1
    <2>2. CASE k - p \in 1..q /\ c[k] = m + b[k - p] /\ b[k - p] \in J /\ h[k] = g[k - p]
      <3>1. g[k - p] = t[b[k - p]]
        BY <1>52, <1>6, <2>2 DEF FilteredBy
      <3> QED
        BY <1>9, <2>2, <3>1
    <2> QED
      BY <1>8, <2>1, <2>2
  <1>13. \A i \in K : \E k \in DOMAIN h : c[k] = i
    <2> TAKE i \in K
    <2>1. CASE i \in I
      <3>1. PICK k \in DOMAIN f : a[k] = i
        BY <1>51, <2>1 DEF FilteredBy
      <3>2. k \in DOMAIN h /\ c[k] = a[k]
        BY <1>6, <1>7
      <3> QED
        BY <3>1, <3>2
    <2>2. CASE i - m \in J /\ m + (i - m) = i
      <3>1. PICK k \in DOMAIN g : b[k] = i - m
        BY <1>52, <2>2 DEF FilteredBy
      <3>2. p + k \in DOMAIN h /\ ~(p + k <= p) /\ (p + k) - p = k
        BY <1>6
      <3>3. c[p + k] = m + b[k]
        BY <1>7, <3>2
      <3> QED
        BY <2>2, <3>1, <3>2, <3>3
    <2> QED
      BY <1>10, <2>1, <2>2
  <1>14. \A k, l \in DOMAIN h : k < l => c[k] < c[l]
    <2> TAKE k, l \in DOMAIN h
    <2> HAVE k < l
    <2>1. CASE l <= p
      <3>1. k \in DOMAIN f /\ l \in DOMAIN f /\ c[k] = a[k] /\ c[l] = a[l]
        BY <1>6, <1>7, <2>1
      <3> QED
        BY <1>51, <3>1 DEF FilteredBy
    <2>2. CASE ~(l <= p) /\ k <= p
      <3>1. PICK x, y : x = a[k] /\ y = b[l - p]
        OBVIOUS
      <3>2. c[k] = x /\ a[k] \in I /\ c[l] = m + y /\ b[l - p] \in J
        BY <1>8, <2>2, <3>1
      <3>3. x \in 1..m /\ y \in 1..n
        BY <1>9, <3>1, <3>2
      <3>4. x < m + y
        BY <3>3
      <3> QED
        BY <3>2, <3>4
    <2>3. CASE ~(l <= p) /\ ~(k <= p)
      <3>1. PICK x, y : x = b[k - p] /\ y = b[l - p]
        OBVIOUS
      <3>2. k - p \in 1..q /\ c[k] = m + x /\ b[k - p] \in J
        BY <1>6, <1>8, <2>3, <3>1
      <3>3. l - p \in 1..q /\ c[l] = m + y /\ b[l - p] \in J
        BY <1>6, <1>8, <2>3, <3>1
      <3>4. k - p < l - p
        BY <1>6
      <3>5. x < y
        BY <1>52, <1>6, <3>1, <3>2, <3>3, <3>4 DEF FilteredBy
      <3>6. x \in 1..n /\ y \in 1..n
        BY <1>9, <3>1, <3>2, <3>3
      <3>7. m + x < m + y
        BY <3>5, <3>6
      <3> QED
        BY <3>2, <3>3, <3>7
    <2> QED
      BY <2>1, <2>2, <2>3
  <1>15. K \in SUBSET (1..Len(st))
    BY <1>3
  <1>16. h = Kept(st, K)
    <2>1. FilteredBy(st, K, h, c)
      BY <1>12, <1>13, <1>14, Zenon DEF FilteredBy
    <2> QED
      BY <1>11, <1>15, <2>1, KeptIs
  <1> QED
    BY <1>0, <1>2, <1>4, <1>53, <1>16 DEF Among

\* One element is kept or left out.
LEMMA AmongOne ==
    ASSUME NEW T, NEW e \in T, NEW es
    PROVE  /\ e \in es => Among(<<e>>, es) = <<e>>
           /\ e \notin es => Among(<<e>>, es) = <<>>
  <1>0. PICK s \in Seq(T) : s = <<e>>
    <2>1. <<e>> \in Seq(T)
      OBVIOUS
    <2> QED
      BY <2>1, Zenon
  <1>1. s = <<e>> /\ Len(s) = 1 /\ DOMAIN s = {1} /\ s[1] = e
    BY <1>0
  <1>2. PICK f \in Seq(T) : f = Among(s, es) /\ Contents(f) = Contents(s) \cap es
    BY AmongGives
  <1>3. CASE e \notin es
    <2>1. Contents(f) = {}
      BY <1>1, <1>2, <1>3 DEF Contents
    <2>2. DOMAIN f = {}
      BY <2>1 DEF Contents
    <2>3. f = <<>>
      BY <2>2, EmptySeq
    <2> QED
      BY <1>1, <1>2, <1>3, <2>3
  <1>4. CASE e \in es
    <2>1. PICK I, at : I = {i \in DOMAIN s : s[i] \in es} /\ at = [k \in DOMAIN s |-> 1]
      OBVIOUS
    <2>2. I = {1} /\ at \in [DOMAIN s -> I] /\ at[1] = 1 /\ I \in SUBSET (1..Len(s))
      BY <1>1, <1>4, <2>1
    <2>3. /\ \A k \in DOMAIN s : s[k] = s[at[k]]
          /\ \A i \in I : \E k \in DOMAIN s : at[k] = i
          /\ \A k, l \in DOMAIN s : k < l => at[k] < at[l]
      BY <1>1, <2>2
    <2>4. s = Kept(s, I)
      <3>1. FilteredBy(s, I, s, at)
        BY <2>3, Zenon DEF FilteredBy
      <3> QED
        BY <2>2, <3>1, KeptIs
    <2> QED
      BY <1>1, <1>4, <2>1, <2>4 DEF Among
  <1> QED
    BY <1>3, <1>4
=============================================================================
