------------------------ MODULE SequenceFilterProofs ------------------------
(***************************************************************************)
(* Facts about Keep, proved from the indices it is defined by, and the     *)
(* small facts about numbers and sequences the other proofs cite.          *)
(***************************************************************************)
EXTENDS SequenceFilter, FiniteSetTheorems, SequenceTheorems,
        WellFoundedInduction, TLAPS

\* Every non-empty set of natural numbers has a smallest member.
LEMMA SmallestNat ==
  ASSUME NEW S \in SUBSET Nat, S # {}
  PROVE  \E n \in S : \A m \in S : n <= m
<1>1. PICK n \in S : \A m \in S : <<m, n>> \notin OpToRel(<, Nat)
  BY WFMin, NatLessThanWellFounded
<1>2. ASSUME NEW m \in S PROVE n <= m
  <2>1. m \in Nat /\ n \in Nat
    OBVIOUS
  <2>2. ~ (m < n)
    <3>1. <<m, n>> \notin {ss \in Nat \X Nat : ss[1] < ss[2]}
      BY <1>1 DEF OpToRel
    <3>2. <<m, n>> \in Nat \X Nat
      BY <2>1
    <3> QED
      BY <3>1, <3>2
  <2> QED
    BY <2>1, <2>2
<1> QED
  BY <1>2

\* Some index n of K has exactly m members of K up to it, when K has m.
LEMMA NthIndexExists ==
  ASSUME NEW N \in Nat, NEW K \in SUBSET (1 .. N), NEW m \in 1 .. Cardinality(K)
  PROVE  /\ NthIndex(K, m) \in K
         /\ Cardinality({k \in K : k <= NthIndex(K, m)}) = m
<1> DEFINE Below(n) == {k \in K : k <= n}
           S == {n \in 1 .. N : Cardinality(Below(n)) >= m}
<1>0. \A k \in K : k \in 1 .. N /\ k \in Nat /\ k <= N /\ k >= 1
  OBVIOUS
<1>1. IsFiniteSet(K) /\ Cardinality(K) \in Nat
  <2>1. IsFiniteSet(1 .. N)
    BY FS_Interval
  <2>2. IsFiniteSet(K)
    BY <2>1, FS_Subset
  <2> QED
    BY <2>2, FS_CardinalityType
<1>2. ASSUME NEW n \in Nat
      PROVE  IsFiniteSet(Below(n)) /\ Cardinality(Below(n)) \in Nat
  <2>1. Below(n) \in SUBSET K
    OBVIOUS
  <2>2. IsFiniteSet(Below(n))
    BY <2>1, <1>1, FS_Subset
  <2> QED
    BY <2>2, FS_CardinalityType
<1>3. S # {} /\ S \in SUBSET Nat /\ S \in SUBSET (1 .. N)
  <2>1. Below(N) = K
    BY ONLY <1>0
  <2>2. m \in Nat /\ m >= 1 /\ Cardinality(K) >= m
    BY <1>1
  <2>3. K # {}
    BY <2>2, FS_EmptySet
  <2>4. N \in 1 .. N
    <3>1. PICK k \in K : TRUE
      BY <2>3
    <3>2. k \in Nat /\ k <= N /\ k >= 1
      BY <1>0
    <3> QED
      BY <3>2
  <2>5. N \in S
    BY <2>1, <2>2, <2>4
  <2>6. \A j \in S : j \in 1 .. N /\ j \in Nat
    OBVIOUS
  <2> HIDE DEF S
  <2> QED
    BY <2>5, <2>6
<1>4. PICK n \in S : \A j \in S : n <= j
  <2> HIDE DEF S
  <2> QED
    BY <1>3, SmallestNat
<1>5. n \in 1 .. N /\ n \in Nat /\ n - 1 \in Nat /\ Cardinality(Below(n)) >= m
  BY <1>4
<1>6. Cardinality(Below(n - 1)) < m
  <2>1. CASE n = 1
    <3>0. \A k \in K : ~ (k <= n - 1)
      BY <2>1, <1>0
    <3>1. Below(n - 1) = {}
      BY ONLY <3>0
    <3> HIDE DEF Below
    <3> QED
      BY <3>1, <1>1, FS_EmptySet
  <2>2. CASE n # 1
    <3>1. n - 1 \in 1 .. N
      BY <1>5, <2>2
    <3>2. n - 1 \notin S
      <4> HIDE DEF S
      <4> QED
        BY <1>4, <1>5, <3>1
    <3>3. ~ (Cardinality(Below(n - 1)) >= m)
      BY <3>1, <3>2
    <3>4. Cardinality(Below(n - 1)) \in Nat
      BY <1>5, <1>2
    <3> HIDE DEF Below
    <3> QED
      BY <3>3, <3>4, <1>1
  <2> QED
    BY <2>1, <2>2
<1>7. n \in K
  <2>1. SUFFICES ASSUME n \notin K PROVE FALSE
    OBVIOUS
  <2>2. \A k \in K : k <= n - 1 <=> k <= n
    BY <2>1, <1>0, <1>5
  <2>3. Below(n - 1) = Below(n)
    BY ONLY <2>2
  <2>4. Cardinality(Below(n)) \in Nat /\ m \in Nat
    BY <1>5, <1>2, <1>1
  <2> HIDE DEF Below
  <2> QED
    BY <2>3, <2>4, <1>5, <1>6
<1>8. Cardinality(Below(n)) = m
  <2>1. \A k \in K : k <= n <=> k <= n - 1 \/ k = n
    BY <1>0, <1>5
  <2>2. n \notin Below(n - 1)
    BY <1>5
  <2>3. Below(n) = Below(n - 1) \cup {n}
    BY ONLY <1>7, <2>1
  <2>4. IsFiniteSet(Below(n - 1)) /\ Cardinality(Below(n - 1)) \in Nat
    BY <1>5, <1>2
  <2> HIDE DEF Below
  <2>5. Cardinality(Below(n)) = Cardinality(Below(n - 1)) + 1
    BY <2>2, <2>3, <2>4, FS_AddElement
  <2> QED
    BY <2>4, <2>5, <1>5, <1>6, <1>1
<1> HIDE DEF S
<1> QED
  BY <1>7, <1>8 DEF NthIndex

\* The indices kept are indices of s, finitely many.
LEMMA KeptIndicesFacts ==
  ASSUME NEW T, NEW s \in Seq(T), NEW S
  PROVE  /\ KeptIndices(s, S) \in SUBSET (1 .. Len(s))
         /\ IsFiniteSet(KeptIndices(s, S))
         /\ Cardinality(KeptIndices(s, S)) \in Nat
         /\ Cardinality(KeptIndices(s, S)) <= Len(s)
<1>1. Len(s) \in Nat /\ DOMAIN s = 1 .. Len(s)
  OBVIOUS
<1>2. KeptIndices(s, S) \in SUBSET (1 .. Len(s))
  BY <1>1 DEF KeptIndices
<1>3. IsFiniteSet(1 .. Len(s)) /\ Cardinality(1 .. Len(s)) = Len(s)
  <2>1. 1 \in Int /\ Len(s) \in Int
    BY <1>1
  <2>2. /\ IsFiniteSet(1 .. Len(s))
        /\ Cardinality(1 .. Len(s)) = IF 1 > Len(s) THEN 0 ELSE Len(s) - 1 + 1
    BY <2>1, FS_Interval
  <2> QED
    BY <2>2, <1>1
<1>4. /\ IsFiniteSet(KeptIndices(s, S))
      /\ Cardinality(KeptIndices(s, S)) <= Cardinality(1 .. Len(s))
  BY <1>2, <1>3, FS_Subset
<1> QED
  BY <1>2, <1>3, <1>4, FS_CardinalityType

\* Each position of Keep(s, S) holds the element at some kept index of s.
LEMMA KeepElement ==
  ASSUME NEW T, NEW s \in Seq(T), NEW S
  PROVE  /\ Keep(s, S) \in Seq(T)
         /\ Len(Keep(s, S)) = Cardinality(KeptIndices(s, S))
         /\ Len(Keep(s, S)) <= Len(s)
         /\ \A m \in DOMAIN Keep(s, S) :
              /\ NthIndex(KeptIndices(s, S), m) \in KeptIndices(s, S)
              /\ Keep(s, S)[m] = s[NthIndex(KeptIndices(s, S), m)]
<1> DEFINE K == KeptIndices(s, S)
           c == Cardinality(K)
<1>1. /\ K \in SUBSET (1 .. Len(s)) /\ c \in Nat /\ c <= Len(s) /\ Len(s) \in Nat
  BY KeptIndicesFacts
<1> HIDE DEF K
<1>2. Keep(s, S) = [m \in 1 .. c |-> s[NthIndex(K, m)]]
  BY DEF Keep, K
<1>3. ASSUME NEW m \in 1 .. c
      PROVE  NthIndex(K, m) \in K /\ s[NthIndex(K, m)] \in T
  <2>1. NthIndex(K, m) \in K
    BY <1>1, NthIndexExists
  <2>2. NthIndex(K, m) \in 1 .. Len(s)
    BY <1>1, <2>1
  <2> QED
    BY <2>1, <2>2
<1>4. Keep(s, S) \in [1 .. c -> T]
  BY <1>2, <1>3
<1>5. Keep(s, S) \in Seq(T) /\ Len(Keep(s, S)) = c /\ DOMAIN Keep(s, S) = 1 .. c
  BY <1>4, <1>1
<1>6. ASSUME NEW m \in DOMAIN Keep(s, S)
      PROVE  NthIndex(K, m) \in K /\ Keep(s, S)[m] = s[NthIndex(K, m)]
  BY <1>2, <1>3, <1>5
<1> QED
  BY <1>1, <1>5, <1>6 DEF K

\* Keep keeps elements of s that are in S, and all of them.
LEMMA KeepRange ==
  ASSUME NEW T, NEW s \in Seq(T), NEW S
  PROVE  Range(Keep(s, S)) = Range(s) \cap S
<1> DEFINE K == KeptIndices(s, S)
           c == Cardinality(K)
<1>1. /\ K \in SUBSET (1 .. Len(s)) /\ IsFiniteSet(K) /\ c \in Nat /\ Len(s) \in Nat
      /\ DOMAIN s = 1 .. Len(s)
  BY KeptIndicesFacts
<1>2. \A m \in DOMAIN Keep(s, S) :
        NthIndex(K, m) \in K /\ Keep(s, S)[m] = s[NthIndex(K, m)]
  BY KeepElement
<1>3. DOMAIN Keep(s, S) = 1 .. c
  BY KeepElement
<1>4. \A n \in K : n \in DOMAIN s /\ s[n] \in S
  BY DEF KeptIndices
<1>5. ASSUME NEW x \in Range(Keep(s, S))
      PROVE  x \in Range(s) \cap S
  <2>1. PICK m \in DOMAIN Keep(s, S) : x = Keep(s, S)[m]
    BY <1>5 DEF Range
  <2> QED
    BY <2>1, <1>2, <1>4 DEF Range
<1>6. ASSUME NEW x \in Range(s) \cap S
      PROVE  x \in Range(Keep(s, S))
  <2>1. PICK n \in DOMAIN s : x = s[n]
    BY <1>6 DEF Range
  <2>2. n \in K /\ n \in Nat
    BY <2>1, <1>1 DEF KeptIndices
  <2> DEFINE Below(j) == {k \in K : k <= j}
             m == Cardinality(Below(n))
  <2>3. ASSUME NEW j \in Nat
        PROVE  IsFiniteSet(Below(j)) /\ Cardinality(Below(j)) \in Nat /\ Cardinality(Below(j)) <= c
    <3>1. Below(j) \in SUBSET K
      OBVIOUS
    <3>2. IsFiniteSet(Below(j)) /\ Cardinality(Below(j)) <= c
      BY <3>1, <1>1, FS_Subset
    <3> QED
      BY <3>2, FS_CardinalityType
  <2>4. Below(n) # {}
    BY <2>2
  <2>5. m \in 1 .. c
    <3>1. m # 0
      BY <2>2, <2>3, <2>4, FS_EmptySet
    <3>2. m \in Nat /\ m <= c
      BY <2>2, <2>3
    <3> HIDE DEF m
    <3> QED
      BY <3>1, <3>2, <1>1
  <2>6. NthIndex(K, m) \in K /\ Cardinality(Below(NthIndex(K, m))) = m
    <3> HIDE DEF K, m
    <3> QED
      BY <1>1, <2>5, NthIndexExists
  <2>7. NthIndex(K, m) = n
    <3> DEFINE j == NthIndex(K, m)
    <3> HIDE DEF K, m, j
    <3>1. j \in K /\ n \in K /\ j \in Nat /\ n \in Nat
      BY <1>1, <2>2, <2>6 DEF j
    <3>2. Below(j) = Below(n)
      <4>1. Below(j) \in SUBSET Below(n) \/ Below(n) \in SUBSET Below(j)
        <5>1. \A k \in K : k \in Nat
          BY <1>1
        <5>2. (\A k \in K : k <= j => k <= n) \/ (\A k \in K : k <= n => k <= j)
          BY <3>1, <5>1
        <5> QED
          BY ONLY <5>2
      <4>2. Cardinality(Below(j)) = Cardinality(Below(n))
        BY <2>6 DEF m, j
      <4>3. IsFiniteSet(Below(j)) /\ IsFiniteSet(Below(n))
        BY <3>1, <2>3
      <4> HIDE DEF Below
      <4> QED
        BY <4>1, <4>2, <4>3, FS_Subset
    <3>3. j <= n /\ n <= j
      <4>1. j \in Below(j) /\ n \in Below(n)
        BY <3>1
      <4>2. j \in Below(n) /\ n \in Below(j)
        <5> HIDE DEF Below
        <5> QED
          BY <4>1, <3>2
      <4> QED
        BY <4>2
    <3> QED
      BY <3>1, <3>3 DEF j
  <2>8. m \in DOMAIN Keep(s, S)
    BY <2>5, <1>3
  <2>9. Keep(s, S)[m] = x
    BY <2>7, <2>8, <1>2, <2>1
  <2> QED
    BY <2>8, <2>9 DEF Range
<1> QED
  BY <1>5, <1>6

\* Keeping some elements of a sequence without repetition.
LEMMA KeepInjective ==
  ASSUME NEW T, NEW s \in Seq(T), NEW S,
         \A i, j \in 1..Len(s) : s[i] = s[j] => i = j
  PROVE  LET k == Keep(s, S) IN \A i, j \in 1..Len(k) : k[i] = k[j] => i = j
<1> DEFINE k == Keep(s, S)
           K == KeptIndices(s, S)
<1>1. K \in SUBSET (1..Len(s)) /\ Len(s) \in Nat
  BY KeptIndicesFacts
<1>2. /\ k \in Seq(T) /\ Len(k) = Cardinality(K)
      /\ \A m \in DOMAIN k : NthIndex(K, m) \in K /\ k[m] = s[NthIndex(K, m)]
  BY KeepElement
<1> HIDE DEF k, K
<1>3. ASSUME NEW i \in 1..Len(k), NEW j \in 1..Len(k), k[i] = k[j]
      PROVE  i = j
  <2>1. i \in DOMAIN k /\ j \in DOMAIN k
    BY <1>2
  <2>2. NthIndex(K, i) = NthIndex(K, j)
    BY <1>1, <1>2, <1>3, <2>1
  <2>3. /\ Cardinality({n \in K : n <= NthIndex(K, i)}) = i
        /\ Cardinality({n \in K : n <= NthIndex(K, j)}) = j
    BY <1>1, <1>2, NthIndexExists
  <2> QED
    BY <2>2, <2>3
<1> QED
  BY <1>3 DEF k

\* A sequence has finitely many elements.
LEMMA FiniteRange ==
  ASSUME NEW T, NEW s \in Seq(T)
  PROVE  IsFiniteSet(Range(s))
<1>1. s \in Surjection(1 .. Len(s), Range(s))
  BY DEF Surjection, Range
<1>2. IsFiniteSet(1 .. Len(s))
  BY FS_Interval
<1> QED
  BY <1>1, <1>2, FS_Surjection

\* f maps the places of q, in order, to the places of s that hold a member of S.
Indexes(f, q, s, S) ==
  /\ f \in [1 .. Len(q) -> 1 .. Len(s)]
  /\ \A i, j \in 1 .. Len(q) : i < j => f[i] < f[j]
  /\ \A m \in 1 .. Len(q) : q[m] = s[f[m]] /\ s[f[m]] \in S
  /\ \A n \in 1 .. Len(s) : s[n] \in S => \E m \in 1 .. Len(q) : f[m] = n

\* A function that never repeats itself has as many values as arguments.
LEMMA CountValues ==
  ASSUME NEW n \in Nat, NEW f, NEW V,
         \A i \in 1 .. n : f[i] \in V,
         \A v \in V : \E i \in 1 .. n : f[i] = v,
         \A i, j \in 1 .. n : f[i] = f[j] => i = j
  PROVE  IsFiniteSet(V) /\ Cardinality(V) = n
<1> DEFINE g == [i \in 1 .. n |-> f[i]]
<1>1. g \in Bijection(1 .. n, V)
  BY DEF Bijection, Injection, Surjection, IsInjective
<1>2. ExistsBijection(1 .. n, V)
  BY <1>1 DEF ExistsBijection
<1>3. IsFiniteSet(1 .. n) /\ Cardinality(1 .. n) = n
  BY FS_Interval
<1> QED
  BY <1>2, <1>3, FS_Bijection

\* Keep is the only sequence with such a map.
LEMMA KeepUnique ==
  ASSUME NEW T, NEW s \in Seq(T), NEW S, NEW q \in Seq(T), NEW f, Indexes(f, q, s, S)
  PROVE  q = Keep(s, S)
<1> DEFINE K == KeptIndices(s, S)
           Upto(m) == {f[i] : i \in 1 .. m}
<1>1. /\ Len(q) \in Nat /\ Len(s) \in Nat /\ DOMAIN s = 1 .. Len(s)
      /\ q = [m \in 1 .. Len(q) |-> q[m]]
  OBVIOUS
<1>2. /\ \A m \in 1 .. Len(q) : f[m] \in 1 .. Len(s) /\ s[f[m]] \in S /\ q[m] = s[f[m]]
      /\ \A i, j \in 1 .. Len(q) : i < j => f[i] < f[j]
      /\ \A n \in 1 .. Len(s) : s[n] \in S => \E m \in 1 .. Len(q) : f[m] = n
  BY DEF Indexes
<1>3. \A i, j \in 1 .. Len(q) : f[i] <= f[j] <=> i <= j
  <2> TAKE i, j \in 1 .. Len(q)
  <2>1. f[i] \in Int /\ f[j] \in Int /\ i \in Int /\ j \in Int
    BY <1>2
  <2>2. (i < j => f[i] < f[j]) /\ (j < i => f[j] < f[i])
    BY <1>2
  <2>3. i < j \/ j < i \/ i = j
    BY <2>1
  <2> QED
    BY <2>1, <2>2, <2>3
<1>4. \A i, j \in 1 .. Len(q) : f[i] = f[j] => i = j
  <2> SUFFICES ASSUME NEW i \in 1 .. Len(q), NEW j \in 1 .. Len(q), f[i] = f[j]
               PROVE  i = j
    OBVIOUS
  <2>1. f[i] \in Int
    BY <1>2
  <2>2. i <= j /\ j <= i
    BY <1>3, <2>1
  <2> QED
    BY <2>2
<1>5. K = Upto(Len(q))
  <2>1. \A n : n \in K <=> n \in 1 .. Len(s) /\ s[n] \in S
    BY <1>1 DEF KeptIndices
  <2> HIDE DEF K
  <2> QED
    BY <2>1, <1>2
<1> HIDE DEF K
<1>6. Cardinality(K) = Len(q)
  <2>1. (\A i \in 1 .. Len(q) : f[i] \in K) /\ \A v \in K : \E i \in 1 .. Len(q) : f[i] = v
    BY <1>5
  <2> QED
    BY <1>1, <1>4, <2>1, CountValues
<1>7. ASSUME NEW m \in 1 .. Len(q)
      PROVE  Cardinality({k \in K : k <= f[m]}) = m
  <2>1. {k \in K : k <= f[m]} = Upto(m)
    <3>1. m \in Nat /\ m <= Len(q) /\ 1 .. m \in SUBSET (1 .. Len(q))
      BY <1>1
    <3>2. ASSUME NEW i \in 1 .. m PROVE f[i] \in K /\ f[i] <= f[m]
      BY <1>3, <1>5, <3>1, <3>2
    <3>3. ASSUME NEW i \in 1 .. Len(q), f[i] <= f[m] PROVE i \in 1 .. m
      BY <1>3, <3>1, <3>3
    <3> QED
      BY <1>5, <3>2, <3>3
  <2>2. m \in Nat /\ \A i, j \in 1 .. m : f[i] = f[j] => i = j
    BY <1>1, <1>4
  <2>3. Cardinality(Upto(m)) = m
    <3>1. /\ \A i \in 1 .. m : f[i] \in Upto(m)
          /\ \A v \in Upto(m) : \E i \in 1 .. m : f[i] = v
      OBVIOUS
    <3> HIDE DEF Upto
    <3> QED
      BY <2>2, <3>1, CountValues
  <2> QED
    BY <2>1, <2>3
<1>8. ASSUME NEW m \in 1 .. Len(q)
      PROVE  NthIndex(K, m) = f[m]
  <2>1. K \in SUBSET (1 .. Len(s))
    BY KeptIndicesFacts DEF K
  <2>2. /\ NthIndex(K, m) \in K
        /\ Cardinality({k \in K : k <= NthIndex(K, m)}) = m
    BY <1>1, <1>6, <2>1, NthIndexExists
  <2>3. PICK i \in 1 .. Len(q) : NthIndex(K, m) = f[i]
    BY <1>5, <2>2
  <2>4. i = m
    BY <1>7, <2>2, <2>3
  <2> QED
    BY <2>3, <2>4
<1>9. Keep(s, S) = [m \in 1 .. Len(q) |-> s[NthIndex(K, m)]]
  BY <1>6 DEF Keep, K
<1>10. [m \in 1 .. Len(q) |-> s[NthIndex(K, m)]] = [m \in 1 .. Len(q) |-> q[m]]
  BY <1>2, <1>8
<1> QED
  BY <1>1, <1>9, <1>10

\* Keep has such a map.
LEMMA KeepIndexed ==
  ASSUME NEW T, NEW s \in Seq(T), NEW S
  PROVE  \E f : Indexes(f, Keep(s, S), s, S)
<1> DEFINE K == KeptIndices(s, S)
           q == Keep(s, S)
           f == [m \in 1 .. Len(q) |-> NthIndex(K, m)]
           Below(n) == {k \in K : k <= n}
<1>1. K \in SUBSET (1 .. Len(s)) /\ IsFiniteSet(K) /\ Cardinality(K) \in Nat /\ Len(s) \in Nat
  BY KeptIndicesFacts
<1>2. /\ q \in Seq(T) /\ Len(q) = Cardinality(K)
      /\ \A m \in DOMAIN q : NthIndex(K, m) \in K /\ q[m] = s[NthIndex(K, m)]
  BY KeepElement
<1>3. DOMAIN q = 1 .. Len(q) /\ Len(q) \in Nat /\ DOMAIN s = 1 .. Len(s)
  BY <1>2
<1>4. \A n : n \in K <=> n \in 1 .. Len(s) /\ s[n] \in S
  BY <1>3 DEF KeptIndices
<1> HIDE DEF K, q
<1>5. \A m \in 1 .. Len(q) : f[m] \in K /\ q[m] = s[f[m]] /\ Cardinality(Below(f[m])) = m
  BY <1>1, <1>2, <1>3, NthIndexExists
<1>6. \A i, j \in 1 .. Len(q) : f[i] = f[j] => i = j
  BY <1>5
<1>7. ASSUME NEW i \in 1 .. Len(q), NEW j \in 1 .. Len(q), i < j
      PROVE  f[i] < f[j]
  <2>1. f[i] \in Nat /\ f[j] \in Nat
    <3>1. f[i] \in K /\ f[j] \in K
      BY <1>5
    <3>2. \A k \in K : k \in Nat
      BY <1>1
    <3> HIDE DEF f
    <3> QED
      BY <3>1, <3>2
  <2>2. SUFFICES ASSUME f[j] <= f[i] PROVE FALSE
    BY <2>1
  <2>3. Below(f[j]) \in SUBSET Below(f[i]) /\ Below(f[i]) \in SUBSET K
    <3>1. \A k \in K : k \in Nat
      BY <1>1
    <3> HIDE DEF f
    <3> QED
      BY <2>1, <2>2, <3>1
  <2>4. IsFiniteSet(Below(f[i]))
    BY <1>1, <2>3, FS_Subset
  <2>5. Cardinality(Below(f[j])) <= Cardinality(Below(f[i]))
    BY <2>3, <2>4, FS_Subset
  <2>6. j <= i
    BY <1>5, <2>5
  <2> QED
    BY <1>3, <1>7, <2>6
<1>8. {f[i] : i \in 1 .. Len(q)} = K
  <2> HIDE DEF f
  <2> DEFINE V == {f[i] : i \in 1 .. Len(q)}
  <2>1. V \in SUBSET K
    BY <1>5
  <2>2. (\A i \in 1 .. Len(q) : f[i] \in V) /\ \A v \in V : \E i \in 1 .. Len(q) : f[i] = v
    OBVIOUS
  <2> HIDE DEF V
  <2>4. Cardinality(V) = Len(q)
    BY <1>3, <1>6, <2>2, CountValues
  <2>3. V = K
    BY <1>1, <1>2, <2>1, <2>4, FS_Subset
  <2> QED
    BY <2>3 DEF V
<1>9. f \in [1 .. Len(q) -> 1 .. Len(s)]
  BY <1>1, <1>5
<1> HIDE DEF f
<1>10. Indexes(f, q, s, S)
  <2>1. \A m \in 1 .. Len(q) : q[m] = s[f[m]] /\ s[f[m]] \in S
    BY <1>4, <1>5
  <2>2. \A n \in 1 .. Len(s) : s[n] \in S => \E m \in 1 .. Len(q) : f[m] = n
    BY <1>4, <1>8
  <2> QED
    BY <1>7, <1>9, <2>1, <2>2 DEF Indexes
<1> QED
  BY <1>10 DEF q

\* Keep looks only at the elements that occur.
LEMMA KeepSame ==
  ASSUME NEW T, NEW s \in Seq(T), NEW S, NEW R,
         \A i \in 1 .. Len(s) : s[i] \in S <=> s[i] \in R
  PROVE  Keep(s, S) = Keep(s, R)
<1>1. DOMAIN s = 1 .. Len(s)
  OBVIOUS
<1>2. KeptIndices(s, S) = KeptIndices(s, R)
  BY <1>1 DEF KeptIndices
<1> QED
  BY <1>2 DEF Keep

\* A sequence of members is kept as it is.
LEMMA KeepAll ==
  ASSUME NEW T, NEW s \in Seq(T), NEW S, \A i \in 1 .. Len(s) : s[i] \in S
  PROVE  Keep(s, S) = s
<1> DEFINE f == [i \in 1 .. Len(s) |-> i]
<1>1. Len(s) \in Nat
  OBVIOUS
<1>2. Indexes(f, s, s, S)
  BY <1>1 DEF Indexes
<1> QED
  BY <1>2, KeepUnique

\* Nothing is kept of a sequence without members.
LEMMA KeepNone ==
  ASSUME NEW T, NEW s \in Seq(T), NEW S, \A i \in 1 .. Len(s) : s[i] \notin S
  PROVE  Keep(s, S) = <<>>
<1>1. KeptIndices(s, S) = {}
  BY DEF KeptIndices
<1>2. /\ Keep(s, S) \in Seq(T)
      /\ Len(Keep(s, S)) = Cardinality(KeptIndices(s, S))
  BY KeepElement
<1>3. Cardinality(KeptIndices(s, S)) = 0
  BY <1>1, FS_EmptySet
<1> QED
  BY <1>2, <1>3

\* Keeping from a concatenation, part by part.
LEMMA KeepConcat ==
  ASSUME NEW T, NEW s \in Seq(T), NEW t \in Seq(T), NEW S
  PROVE  Keep(s \o t, S) = Keep(s, S) \o Keep(t, S)
<1> DEFINE q == Keep(s, S)
           r == Keep(t, S)
<1>1. q \in Seq(T) /\ r \in Seq(T)
  BY KeepElement
<1>2. PICK f : Indexes(f, q, s, S)
  BY KeepIndexed
<1>3. PICK g : Indexes(g, r, t, S)
  BY KeepIndexed
<1> HIDE DEF q, r
<1> DEFINE a == Len(s)
           b == Len(t)
           c == Len(q)
           d == Len(r)
           h == [m \in 1 .. (c + d) |-> IF m <= c THEN f[m] ELSE a + g[m - c]]
<1>4. /\ s \o t \in Seq(T) /\ q \o r \in Seq(T)
      /\ Len(s \o t) = a + b /\ Len(q \o r) = c + d
      /\ \A i \in 1 .. (a + b) : (s \o t)[i] = IF i <= a THEN s[i] ELSE t[i - a]
      /\ \A i \in 1 .. (c + d) : (q \o r)[i] = IF i <= c THEN q[i] ELSE r[i - c]
  BY <1>1, ConcatProperties
<1>5. a \in Nat /\ b \in Nat /\ c \in Nat /\ d \in Nat
  BY <1>1
<1>6. /\ \A m \in 1 .. c : f[m] \in 1 .. a /\ q[m] = s[f[m]] /\ s[f[m]] \in S
      /\ \A i, j \in 1 .. c : i < j => f[i] < f[j]
      /\ \A n \in 1 .. a : s[n] \in S => \E m \in 1 .. c : f[m] = n
  BY <1>2 DEF Indexes
<1>7. /\ \A m \in 1 .. d : g[m] \in 1 .. b /\ r[m] = t[g[m]] /\ t[g[m]] \in S
      /\ \A i, j \in 1 .. d : i < j => g[i] < g[j]
      /\ \A n \in 1 .. b : t[n] \in S => \E m \in 1 .. d : g[m] = n
  BY <1>3 DEF Indexes
<1> HIDE DEF a, b, c, d
<1>8. ASSUME NEW m \in 1 .. (c + d)
      PROVE  /\ h[m] \in 1 .. (a + b)
             /\ (q \o r)[m] = (s \o t)[h[m]] /\ (s \o t)[h[m]] \in S
  <2>1. CASE m <= c
    <3>1. m \in 1 .. c /\ h[m] = f[m]
      BY <1>5, <2>1
    <3>2. f[m] \in 1 .. a /\ f[m] \in 1 .. (a + b) /\ f[m] <= a
      BY <1>5, <1>6, <3>1
    <3> QED
      BY <1>4, <1>6, <2>1, <3>1, <3>2
  <2>2. CASE m > c
    <3> DEFINE k == m - c
    <3>1. k \in 1 .. d /\ h[m] = a + g[k] /\ ~(m <= c)
      BY <1>5, <2>2
    <3> HIDE DEF k, h
    <3>2. g[k] \in 1 .. b
      BY <1>7, <3>1
    <3>3. a + g[k] \in 1 .. (a + b) /\ ~(a + g[k] <= a) /\ (a + g[k]) - a = g[k]
      BY <1>5, <3>2
    <3>4. (s \o t)[h[m]] = t[g[k]]
      BY <1>4, <3>1, <3>3
    <3>5. (q \o r)[m] = r[k]
      BY <1>4, <3>1 DEF k
    <3> QED
      BY <1>7, <3>1, <3>3, <3>4, <3>5
  <2>3. m <= c \/ m > c
    BY <1>5
  <2> QED
    BY <2>1, <2>2, <2>3
<1>9. ASSUME NEW i \in 1 .. (c + d), NEW j \in 1 .. (c + d), i < j
      PROVE  h[i] < h[j]
  <2>1. CASE j <= c
    <3>1. i \in 1 .. c /\ j \in 1 .. c /\ h[i] = f[i] /\ h[j] = f[j]
      BY <1>5, <1>9, <2>1
    <3> QED
      BY <1>6, <1>9, <3>1
  <2>2. CASE i <= c /\ j > c
    <3>1. i \in 1 .. c /\ j - c \in 1 .. d /\ h[i] = f[i] /\ h[j] = a + g[j - c]
      BY <1>5, <2>2
    <3>2. f[i] \in 1 .. a /\ g[j - c] \in 1 .. b
      BY <1>6, <1>7, <3>1
    <3> QED
      BY <1>5, <3>1, <3>2
  <2>3. CASE i > c
    <3>1. /\ i - c \in 1 .. d /\ j - c \in 1 .. d /\ i - c < j - c
          /\ h[i] = a + g[i - c] /\ h[j] = a + g[j - c]
      BY <1>5, <1>9, <2>3
    <3>2. g[i - c] \in 1 .. b /\ g[j - c] \in 1 .. b /\ g[i - c] < g[j - c]
      BY <1>7, <3>1
    <3> QED
      BY <1>5, <3>1, <3>2
  <2> QED
    BY <1>5, <2>1, <2>2, <2>3
<1>10. ASSUME NEW n \in 1 .. (a + b), (s \o t)[n] \in S
       PROVE  \E m \in 1 .. (c + d) : h[m] = n
  <2>1. CASE n <= a
    <3>1. n \in 1 .. a /\ s[n] \in S
      BY <1>4, <1>5, <1>10, <2>1
    <3>2. PICK m \in 1 .. c : f[m] = n
      BY <1>6, <3>1
    <3>3. m \in 1 .. (c + d) /\ h[m] = n
      BY <1>5, <3>2
    <3> QED
      BY <3>3
  <2>2. CASE n > a
    <3>1. n - a \in 1 .. b /\ ~(n <= a)
      BY <1>5, <2>2
    <3>2. t[n - a] \in S
      BY <1>4, <1>10, <3>1
    <3>3. PICK m \in 1 .. d : g[m] = n - a
      BY <1>7, <3>1, <3>2
    <3>4. m + c \in 1 .. (c + d) /\ ~(m + c <= c) /\ (m + c) - c = m /\ a + (n - a) = n
      BY <1>5
    <3>5. h[m + c] = n
      BY <3>3, <3>4
    <3> QED
      BY <3>4, <3>5
  <2> QED
    BY <1>5, <2>1, <2>2
<1>11. h \in [1 .. (c + d) -> 1 .. (a + b)]
  <2>1. h = [m \in 1 .. (c + d) |-> h[m]]
    OBVIOUS
  <2> HIDE DEF h
  <2> QED
    BY <1>8, <2>1
<1> HIDE DEF h
<1>12. Indexes(h, q \o r, s \o t, S)
  BY <1>4, <1>8, <1>9, <1>10, <1>11 DEF Indexes
<1>13. q \o r = Keep(s \o t, S)
  BY <1>4, <1>12, KeepUnique
<1> QED
  BY <1>13 DEF q, r

\* Keeping twice is keeping what both sets have.
LEMMA KeepKeep ==
  ASSUME NEW T, NEW s \in Seq(T), NEW S, NEW R
  PROVE  Keep(Keep(s, S), R) = Keep(s, S \cap R)
<1> DEFINE q == Keep(s, S)
           r == Keep(q, R)
<1>1. q \in Seq(T) /\ r \in Seq(T)
  BY KeepElement
<1>2. PICK f : Indexes(f, q, s, S)
  BY KeepIndexed
<1>3. PICK g : Indexes(g, r, q, R)
  BY <1>1, KeepIndexed
<1> HIDE DEF q, r
<1> DEFINE h == [m \in 1 .. Len(r) |-> f[g[m]]]
<1>4. /\ \A m \in 1 .. Len(q) : f[m] \in 1 .. Len(s) /\ q[m] = s[f[m]] /\ s[f[m]] \in S
      /\ \A i, j \in 1 .. Len(q) : i < j => f[i] < f[j]
      /\ \A n \in 1 .. Len(s) : s[n] \in S => \E m \in 1 .. Len(q) : f[m] = n
  BY <1>2 DEF Indexes
<1>5. /\ \A m \in 1 .. Len(r) : g[m] \in 1 .. Len(q) /\ r[m] = q[g[m]] /\ q[g[m]] \in R
      /\ \A i, j \in 1 .. Len(r) : i < j => g[i] < g[j]
      /\ \A n \in 1 .. Len(q) : q[n] \in R => \E m \in 1 .. Len(r) : g[m] = n
  BY <1>3 DEF Indexes
<1>6. h \in [1 .. Len(r) -> 1 .. Len(s)]
  BY <1>4, <1>5
<1>7. \A i, j \in 1 .. Len(r) : i < j => h[i] < h[j]
  BY <1>4, <1>5
<1>8. \A m \in 1 .. Len(r) : r[m] = s[h[m]] /\ s[h[m]] \in S \cap R
  BY <1>4, <1>5
<1>9. ASSUME NEW n \in 1 .. Len(s), s[n] \in S \cap R
      PROVE  \E m \in 1 .. Len(r) : h[m] = n
  <2>1. PICK k \in 1 .. Len(q) : f[k] = n
    BY <1>4, <1>9
  <2>2. q[k] \in R
    BY <1>4, <1>9, <2>1
  <2>3. PICK m \in 1 .. Len(r) : g[m] = k
    BY <1>5, <2>2
  <2> QED
    BY <2>1, <2>3
<1> HIDE DEF h
<1>10. Indexes(h, r, s, S \cap R)
  BY <1>6, <1>7, <1>8, <1>9 DEF Indexes
<1>11. r = Keep(s, S \cap R)
  BY <1>1, <1>10, KeepUnique
<1> QED
  BY <1>11 DEF r, q

\* Keeping from one element.
LEMMA KeepOne ==
  ASSUME NEW T, NEW e \in T, NEW S
  PROVE  /\ <<e>> \in Seq(T)
         /\ Keep(<<e>>, S) = IF e \in S THEN <<e>> ELSE <<>>
<1> DEFINE u == <<e>>
<1>1. u \in Seq(T) /\ Len(u) = 1 /\ u[1] = e
  OBVIOUS
<1> HIDE DEF u
<1>2. \A i \in 1 .. Len(u) : u[i] = e
  BY <1>1
<1>3. e \in S => Keep(u, S) = u
  BY <1>1, <1>2, KeepAll
<1>4. e \notin S => Keep(u, S) = <<>>
  BY <1>1, <1>2, KeepNone
<1>5. u \in Seq(T) /\ Keep(u, S) = IF e \in S THEN u ELSE <<>>
  BY <1>1, <1>3, <1>4
<1> QED
  BY <1>5 DEF u

\* Keeping from a longer sequence.
LEMMA KeepAppend ==
  ASSUME NEW T, NEW s \in Seq(T), NEW e \in T, NEW S
  PROVE  Keep(Append(s, e), S) = IF e \in S THEN Append(Keep(s, S), e) ELSE Keep(s, S)
<1> DEFINE u == <<e>>
<1>1. Keep(u, S) = IF e \in S THEN u ELSE <<>>
  BY KeepOne
<1>2. u \in Seq(T)
  BY KeepOne
<1>3. Append(s, e) = s \o u
  OBVIOUS
<1>4. Keep(s, S) \in Seq(T)
  BY KeepElement
<1>5. Append(Keep(s, S), e) = Keep(s, S) \o u
  BY <1>4
<1>6. Keep(s, S) \o <<>> = Keep(s, S)
  BY <1>4, ConcatEmptySeq
<1> HIDE DEF u
<1>7. Keep(s \o u, S) = Keep(s, S) \o Keep(u, S)
  BY <1>2, KeepConcat
<1> QED
  BY <1>1, <1>3, <1>5, <1>6, <1>7

\* Keeping from the rest of a sequence.
LEMMA KeepTail ==
  ASSUME NEW T, NEW s \in Seq(T), NEW S, s # <<>>
  PROVE  Keep(s, S) = IF Head(s) \in S THEN <<Head(s)>> \o Keep(Tail(s), S)
                                       ELSE Keep(Tail(s), S)
<1> DEFINE u == <<Head(s)>>
           t == Tail(s)
<1>1. Head(s) \in T /\ t \in Seq(T) /\ s = u \o t
  <2>1. Head(s) \in T /\ t \in Seq(T)
    OBVIOUS
  <2>2. s = u \o t
    OBVIOUS
  <2> QED
    BY <2>1, <2>2
<1>2. Keep(u, S) = IF Head(s) \in S THEN u ELSE <<>>
  BY <1>1, KeepOne
<1>3. u \in Seq(T) /\ t \in Seq(T)
  BY <1>1, KeepOne
<1> HIDE DEF u, t
<1>4. Keep(t, S) \in Seq(T)
  BY <1>1, KeepElement
<1>5. <<>> \o Keep(t, S) = Keep(t, S)
  BY <1>4, ConcatEmptySeq
<1>6. Keep(s, S) = Keep(u, S) \o Keep(t, S)
  <2>1. Keep(u \o t, S) = Keep(u, S) \o Keep(t, S)
    BY <1>3, KeepConcat
  <2> QED
    BY <1>1, <2>1
<1>7. Keep(s, S) = IF Head(s) \in S THEN u \o Keep(t, S) ELSE Keep(t, S)
  BY <1>2, <1>5, <1>6
<1> QED
  BY <1>7 DEF u, t

\* Keeping without one element of a sequence that has it once.
LEMMA KeepWithout ==
  ASSUME NEW T, NEW s \in Seq(T), NEW S, NEW p \in 1 .. Len(s),
         \A i, j \in 1 .. Len(s) : s[i] = s[j] => i = j
  PROVE  Keep(SubSeq(s, 1, p - 1) \o SubSeq(s, p + 1, Len(s)), S) = Keep(s, S \ {s[p]})
<1> DEFINE a == SubSeq(s, 1, p - 1)
           b == SubSeq(s, p + 1, Len(s))
           e == s[p]
<1>1. Len(s) \in Nat /\ p \in Nat /\ 1 <= p /\ p <= Len(s) /\ e \in T
  OBVIOUS
<1>2. /\ a \in Seq(T) /\ Len(a) = p - 1
      /\ \A i \in 1 .. (p - 1) : a[i] = s[i]
  BY <1>1
<1>3. /\ b \in Seq(T) /\ Len(b) = Len(s) - p
      /\ \A i \in 1 .. (Len(s) - p) : b[i] = s[p + i]
  BY <1>1
<1> HIDE DEF a, b
<1>4. s = (a \o <<e>>) \o b
  <2>1. SubSeq(s, 1, p) = a \o <<e>>
    <3>1. SubSeq(s, 1, p) \in Seq(T) /\ Len(SubSeq(s, 1, p)) = p
      BY <1>1
    <3> QED
      BY <1>1, <1>2, <3>1 DEF a
  <2>2. SubSeq(s, 1, p) \o b = SubSeq(s, 1, Len(s))
    <3>1. 1 \in 1 .. Len(s) + 1 /\ p \in 1 - 1 .. Len(s) /\ Len(s) \in p .. Len(s)
      BY <1>1
    <3> QED
      BY <3>1, ConcatAdjacentSubSeq DEF b
  <2>3. SubSeq(s, 1, Len(s)) = s
    OBVIOUS
  <2> QED
    BY <2>1, <2>2, <2>3
<1> DEFINE R == S \ {e}
           u == <<e>>
<1>5. u \in Seq(T)
  BY <1>1, KeepOne
<1>6. Keep(u, R) = <<>>
  <2>1. e \notin R
    OBVIOUS
  <2> HIDE DEF R
  <2> QED
    BY <1>1, <2>1, KeepOne
<1>7. s = (a \o u) \o b
  BY <1>4
<1> HIDE DEF u
<1>8. a \o u \in Seq(T)
  BY <1>2, <1>5, ConcatProperties
<1>9. Keep(s, R) = (Keep(a, R) \o Keep(u, R)) \o Keep(b, R)
  <2> HIDE DEF R
  <2>1. Keep((a \o u) \o b, R) = Keep(a \o u, R) \o Keep(b, R)
    <3> DEFINE c == a \o u
    <3>1. c \in Seq(T) /\ b \in Seq(T)
      BY <1>3, <1>8
    <3> HIDE DEF c
    <3>2. Keep(c \o b, R) = Keep(c, R) \o Keep(b, R)
      BY <3>1, KeepConcat
    <3> QED
      BY <3>2 DEF c
  <2>2. Keep(a \o u, R) = Keep(a, R) \o Keep(u, R)
    <3>1. a \in Seq(T) /\ u \in Seq(T)
      BY <1>2, <1>5
    <3> QED
      BY <3>1, KeepConcat
  <2> QED
    BY <1>7, <2>1, <2>2
<1>10. Keep(a, R) = Keep(a, S)
  <2>1. \A i \in 1 .. Len(a) : a[i] # e
    BY <1>1, <1>2
  <2>2. \A i \in 1 .. Len(a) : a[i] \in R <=> a[i] \in S
    BY <2>1
  <2> QED
    BY <1>2, <2>2, KeepSame
<1>11. Keep(b, R) = Keep(b, S)
  <2>1. \A i \in 1 .. Len(b) : b[i] # e
    BY <1>1, <1>3
  <2>2. \A i \in 1 .. Len(b) : b[i] \in R <=> b[i] \in S
    BY <2>1
  <2> QED
    BY <1>3, <2>2, KeepSame
<1>12. Keep(a, S) \in Seq(T) /\ Keep(a, S) \o <<>> = Keep(a, S)
  BY <1>2, KeepElement, ConcatEmptySeq
<1>13. Keep(a \o b, S) = Keep(a, S) \o Keep(b, S)
  BY <1>2, <1>3, KeepConcat
<1>14. Keep(s, R) = Keep(a \o b, S)
  BY <1>6, <1>9, <1>10, <1>11, <1>12, <1>13
<1> QED
  BY <1>14 DEF a, b
=============================================================================
