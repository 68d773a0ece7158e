------------------------- MODULE Subsequences_proofs -------------------------
(***************************************************************************)
(* What Rank and Nth are, for every finite set of natural numbers: the two *)
(* directions of its enumeration in ascending order.                       *)
(***************************************************************************)
EXTENDS Subsequences, Functions, FiniteSetTheorems, FunctionTheorems,
        WellFoundedInduction, TLAPS

\* Every non-empty set of natural numbers has a least element.
LEMMA LeastNumber ==
    ASSUME NEW S \in SUBSET Nat, S # {}
    PROVE  \E n \in S : \A m \in S : n <= m
<1>1. PICK n \in S : \A m \in S : <<m, n>> \notin OpToRel(<, Nat)
  BY NatLessThanWellFounded, WFMin
<1>2. \A m \in S : ~(m < n)
  BY <1>1 DEF OpToRel
<1> QED
  BY <1>2

\* Places of a sequence are finitely many numbers.
LEMMA Places ==
    ASSUME NEW n \in Nat, NEW S \in SUBSET (1..n)
    PROVE  S \in SUBSET Nat /\ IsFiniteSet(S) /\ Cardinality(S) \in Nat
<1>1. S \in SUBSET Nat
  OBVIOUS
<1>2. IsFiniteSet(1..n)
  BY FS_Interval
<1>3. IsFiniteSet(S)
  BY <1>2, FS_Subset
<1> QED
  BY <1>1, <1>3, FS_CardinalityType

\* Of two sets one of which holds the other and more, the latter is smaller.
LEMMA FewerElements ==
    ASSUME NEW S, IsFiniteSet(S), NEW T \in SUBSET S, T # S
    PROVE  Cardinality(T) < Cardinality(S)
<1>1. Cardinality(T) \in Nat /\ Cardinality(S) \in Nat
  BY FS_Subset, FS_CardinalityType
<1>2. Cardinality(T) <= Cardinality(S) /\ Cardinality(S) # Cardinality(T)
  BY FS_Subset
<1> QED
  BY <1>1, <1>2

\* An injection of a finite set into as many numbers reaches each of them.
LEMMA InjectionReachesAll ==
    ASSUME NEW S, IsFiniteSet(S), NEW f \in [S -> 1..Cardinality(S)],
           \A x, y \in S : f[x] = f[y] => x = y
    PROVE  \A k \in 1..Cardinality(S) : \E x \in S : f[x] = k
<1> DEFINE n == Cardinality(S)
<1>1. n \in Nat /\ IsFiniteSet(1..n) /\ Cardinality(1..n) = n
  BY FS_CardinalityType, FS_Interval
<1>2. f \in Injection(S, 1..n)
  BY Fun_IsInj
<1>3. f \in Surjection(S, 1..n)
  BY <1>1, <1>2, FS_Injection
<1> QED
  BY <1>3, Fun_SurjectionProperties

\* The rank numbers the elements from 1 on, in ascending order.
LEMMA RankIsMonotone ==
    ASSUME NEW S \in SUBSET Nat, IsFiniteSet(S)
    PROVE  /\ \A i \in S : Rank(S, i) \in 1..Cardinality(S)
           /\ \A i, j \in S : i < j <=> Rank(S, i) < Rank(S, j)
           /\ \A i, j \in S : i = j <=> Rank(S, i) = Rank(S, j)
<1> DEFINE Upto(i) == {j \in S : j <= i}
<1>1. \A i \in S : /\ Upto(i) \in SUBSET S /\ IsFiniteSet(Upto(i))
                   /\ Cardinality(Upto(i)) \in Nat
                   /\ Cardinality(Upto(i)) <= Cardinality(S)
                   /\ Cardinality(Upto(i)) # 0
  <2> SUFFICES ASSUME NEW i \in S
               PROVE  /\ Upto(i) \in SUBSET S /\ IsFiniteSet(Upto(i))
                      /\ Cardinality(Upto(i)) \in Nat
                      /\ Cardinality(Upto(i)) <= Cardinality(S)
                      /\ Cardinality(Upto(i)) # 0
    OBVIOUS
  <2>1. Upto(i) \in SUBSET S /\ Upto(i) # {}
    OBVIOUS
  <2>2. IsFiniteSet(Upto(i)) /\ Cardinality(Upto(i)) <= Cardinality(S)
    BY <2>1, FS_Subset
  <2> HIDE DEF Upto
  <2> QED
    BY <2>1, <2>2, FS_CardinalityType, FS_EmptySet
<1>2. Cardinality(S) \in Nat
  BY FS_CardinalityType
<1>3. \A i \in S : Rank(S, i) = Cardinality(Upto(i))
  BY DEF Rank
<1>4. \A i, j \in S : i < j => Cardinality(Upto(i)) < Cardinality(Upto(j))
  <2> SUFFICES ASSUME NEW i \in S, NEW j \in S, i < j
               PROVE  Cardinality(Upto(i)) < Cardinality(Upto(j))
    OBVIOUS
  <2>0. i \in Nat /\ j \in Nat /\ S \subseteq Nat
    OBVIOUS
  <2>1. j \in Upto(j) /\ j \notin Upto(i)
    BY <2>0
  <2>2. \A x \in Upto(i) : x \in Upto(j)
    BY <2>0
  <2>3. IsFiniteSet(Upto(j))
    BY <1>1
  <2> HIDE DEF Upto
  <2>4. Upto(i) \in SUBSET Upto(j) /\ Upto(i) # Upto(j)
    BY <2>1, <2>2
  <2> QED
    BY <2>3, <2>4, FewerElements
<1> HIDE DEF Upto
<1>5. \A i \in S : i \in Nat
  OBVIOUS
<1>6. \A i, j \in S : i < j \/ j < i \/ i = j
  BY <1>5
<1> QED
  BY <1>1, <1>2, <1>3, <1>4, <1>5, <1>6

\* And Nth is its inverse.
LEMMA NthIsInverse ==
    ASSUME NEW S \in SUBSET Nat, IsFiniteSet(S)
    PROVE  /\ Cardinality(S) \in Nat
           /\ \A k \in 1..Cardinality(S) : Nth(S, k) \in S /\ Rank(S, Nth(S, k)) = k
           /\ \A i \in S : Nth(S, Rank(S, i)) = i
           /\ \A k, m \in 1..Cardinality(S) : k < m <=> Nth(S, k) < Nth(S, m)
<1>1. Cardinality(S) \in Nat
  BY FS_CardinalityType
<1>2. \A k \in 1..Cardinality(S) : \E i \in S : Rank(S, i) = k
  <2> DEFINE f == [i \in S |-> Rank(S, i)]
  <2>1. f \in [S -> 1..Cardinality(S)] /\ \A x, y \in S : f[x] = f[y] => x = y
    BY RankIsMonotone
  <2>2. \A k \in 1..Cardinality(S) : \E i \in S : f[i] = k
    BY <2>1, InjectionReachesAll
  <2> QED
    BY <2>2
<1>3. \A k \in 1..Cardinality(S) : Nth(S, k) \in S /\ Rank(S, Nth(S, k)) = k
  BY <1>2 DEF Nth
<1>4. /\ \A i \in S : Rank(S, i) \in 1..Cardinality(S)
      /\ \A i, j \in S : i < j <=> Rank(S, i) < Rank(S, j)
      /\ \A i, j \in S : i = j <=> Rank(S, i) = Rank(S, j)
  BY RankIsMonotone
<1>5. \A i \in S : Nth(S, Rank(S, i)) = i
  BY <1>3, <1>4
<1>6. \A k, m \in 1..Cardinality(S) : k < m <=> Nth(S, k) < Nth(S, m)
  <2> SUFFICES ASSUME NEW k \in 1..Cardinality(S), NEW m \in 1..Cardinality(S)
               PROVE  k < m <=> Nth(S, k) < Nth(S, m)
    OBVIOUS
  <2>1. Nth(S, k) \in S /\ Nth(S, m) \in S
        /\ Rank(S, Nth(S, k)) = k /\ Rank(S, Nth(S, m)) = m
    BY <1>3
  <2>2. Nth(S, k) < Nth(S, m) <=> Rank(S, Nth(S, k)) < Rank(S, Nth(S, m))
    BY <1>4, <2>1
  <2> QED
    BY <2>1, <2>2
<1> QED
  BY <1>1, <1>3, <1>5, <1>6

\* A subsequence holds what the sequence holds at the places kept, once each if
\* the sequence does.
LEMMA SubsequenceHolds ==
    ASSUME NEW s, NEW keep \in SUBSET Nat, IsFiniteSet(keep)
    PROVE  /\ DOMAIN Subsequence(s, keep) = 1..Cardinality(keep)
           /\ Range(Subsequence(s, keep)) = {s[i] : i \in keep}
           /\ (\A i, j \in keep : s[i] = s[j] => i = j) => IsInjective(Subsequence(s, keep))
<1> DEFINE t == Subsequence(s, keep)
<1>1. t = [k \in 1..Cardinality(keep) |-> s[Nth(keep, k)]]
  BY DEF Subsequence
<1>2. DOMAIN t = 1..Cardinality(keep) /\ \A k \in DOMAIN t : t[k] = s[Nth(keep, k)]
  BY <1>1
<1> HIDE DEF t
<1>3. /\ \A k \in 1..Cardinality(keep) : Nth(keep, k) \in keep /\ Rank(keep, Nth(keep, k)) = k
      /\ \A i \in keep : Rank(keep, i) \in 1..Cardinality(keep) /\ Nth(keep, Rank(keep, i)) = i
  BY NthIsInverse, RankIsMonotone
<1>4. Range(t) = {s[i] : i \in keep}
  <2>1. \A k \in DOMAIN t : t[k] \in {s[i] : i \in keep}
    BY <1>3, <1>2
  <2>2. \A i \in keep : \E k \in DOMAIN t : t[k] = s[i]
    BY <1>3, <1>2
  <2> QED
    BY <2>1, <2>2 DEF Range
<1>5. (\A i, j \in keep : s[i] = s[j] => i = j) => IsInjective(t)
  <2> SUFFICES ASSUME \A i, j \in keep : s[i] = s[j] => i = j,
                      NEW k \in DOMAIN t, NEW m \in DOMAIN t, t[k] = t[m]
               PROVE  k = m
    BY DEF IsInjective
  <2>1. Nth(keep, k) = Nth(keep, m)
    BY <1>3, <1>2
  <2> QED
    BY <1>3, <1>2, <2>1
<1> QED
  BY <1>2, <1>4, <1>5 DEF t

\* A non-empty set of numbers none of which is above n has a greatest element.
LEMMA GreatestNumber ==
    ASSUME NEW n \in Nat, NEW S \in SUBSET (0..n), S # {}
    PROVE  \E m \in S : \A k \in S : k <= m
<1> DEFINE gaps == {n - k : k \in S}
<1>1. gaps \in SUBSET Nat /\ gaps # {}
  <2>1. \A k \in S : k \in Nat /\ n - k \in Nat
    OBVIOUS
  <2> QED
    BY <2>1
<1>2. PICK g \in gaps : \A h \in gaps : g <= h
  BY <1>1, LeastNumber
<1>3. PICK m \in S : g = n - m
  OBVIOUS
<1>4. \A k \in S : n - m <= n - k /\ k \in Int
  BY <1>2, <1>3
<1>5. \A k \in S : k <= m
  BY <1>4
<1> QED
  BY <1>5

\* The rank of any number, in the set or not: it is one more at each element.
LEMMA RankGrows ==
    ASSUME NEW S \in SUBSET Nat, IsFiniteSet(S), NEW i \in Nat
    PROVE  /\ Rank(S, i) \in Nat /\ Rank(S, i) <= Cardinality(S)
           /\ i + 1 \in S => Rank(S, i + 1) = Rank(S, i) + 1
<1> DEFINE upto == {j \in S : j <= i}
<1>1. upto \in SUBSET S /\ Rank(S, i) = Cardinality(upto)
  BY DEF Rank
<1>2. i + 1 \notin upto
  OBVIOUS
<1>3. i + 1 \in S => {j \in S : j <= i + 1} = upto \cup {i + 1}
  <2> SUFFICES ASSUME i + 1 \in S PROVE {j \in S : j <= i + 1} = upto \cup {i + 1}
    OBVIOUS
  <2>1. \A j \in S : j <= i + 1 <=> j <= i \/ j = i + 1
    OBVIOUS
  <2> QED
    BY <2>1
<1> HIDE DEF upto
<1>4. IsFiniteSet(upto) /\ Cardinality(upto) <= Cardinality(S)
  BY <1>1, FS_Subset
<1>5. Cardinality(upto) \in Nat /\ Cardinality(upto \cup {i + 1}) = Cardinality(upto) + 1
  BY <1>2, <1>4, FS_CardinalityType, FS_AddElement
<1> QED
  BY <1>1, <1>3, <1>4, <1>5 DEF Rank

\* Where there is no element, it stays; and it depends on no element above.
LEMMA RankStays ==
    ASSUME NEW S \in SUBSET Nat, NEW T \in SUBSET Nat, NEW i \in Nat, NEW j \in Nat, i <= j,
           \A n \in Nat : n <= i => (n \in S <=> n \in T),
           \A n \in S : ~(i < n /\ n <= j)
    PROVE  Rank(S, j) = Rank(T, i)
<1>1. \A n \in S : n <= j <=> n <= i
  OBVIOUS
<1>2. {n \in S : n <= j} = {n \in T : n <= i}
  BY <1>1
<1> QED
  BY <1>2 DEF Rank

\* A monotone function onto a set enumerates it as its domain is enumerated.
LEMMA MonotoneImage ==
    ASSUME NEW S \in SUBSET Nat, IsFiniteSet(S), NEW T \in SUBSET Nat, IsFiniteSet(T),
           NEW f \in [S -> T], \A t \in T : \E i \in S : f[i] = t,
           \A i, j \in S : i < j => f[i] < f[j]
    PROVE  /\ Cardinality(S) = Cardinality(T)
           /\ \A k \in 1..Cardinality(S) : Nth(T, k) = f[Nth(S, k)]
<1>1. \A i \in S : i \in Nat /\ f[i] \in T /\ f[i] \in Nat
  OBVIOUS
<1>2. \A i, j \in S : f[i] = f[j] => i = j
  BY <1>1
<1>3. \A i, j \in S : f[i] <= f[j] <=> i <= j
  BY <1>1, <1>2
<1>4. \A A, B : A \in SUBSET S /\ B = {f[i] : i \in A} =>
                   Cardinality(A) = Cardinality(B)
  <2> SUFFICES ASSUME NEW A \in SUBSET S, NEW B, B = {f[i] : i \in A}
               PROVE  Cardinality(A) = Cardinality(B)
    OBVIOUS
  <2>1. IsFiniteSet(A)
    BY FS_Subset
  <2> DEFINE g == [i \in A |-> f[i]]
  <2>2. g \in [A -> B] /\ (\A b \in B : \E i \in A : g[i] = b)
    OBVIOUS
  <2>3. \A i, j \in A : g[i] = g[j] => i = j
    BY <1>2
  <2>4. g \in Bijection(A, B)
    BY <2>2, <2>3, Fun_IsBij
  <2> QED
    BY <2>1, <2>4, FS_Bijection DEF ExistsBijection
<1>5. Cardinality(S) = Cardinality(T)
  <2>1. T = {f[i] : i \in S}
    BY <1>1
  <2> QED
    BY <1>4, <2>1
<1>6. \A i \in S : Rank(T, f[i]) = Rank(S, i)
  <2> SUFFICES ASSUME NEW i \in S PROVE Rank(T, f[i]) = Rank(S, i)
    OBVIOUS
  <2> DEFINE A == {j \in S : j <= i}
             B == {t \in T : t <= f[i]}
  <2>1. B = {f[j] : j \in A}
    <3>1. \A j \in A : f[j] \in B
      BY <1>1, <1>3
    <3>2. \A t \in B : \E j \in A : f[j] = t
      BY <1>3
    <3> QED
      BY <3>1, <3>2
  <2>2. A \in SUBSET S
    OBVIOUS
  <2> HIDE DEF A, B
  <2>3. Cardinality(A) = Cardinality(B)
    BY <1>4, <2>1, <2>2
  <2> QED
    BY <2>3 DEF Rank, A, B
<1>7. \A k \in 1..Cardinality(S) : Nth(S, k) \in S /\ Rank(S, Nth(S, k)) = k
  BY NthIsInverse
<1>8. \A t \in T : Nth(T, Rank(T, t)) = t
  BY NthIsInverse
<1> QED
  BY <1>1, <1>5, <1>6, <1>7, <1>8
=============================================================================
