------------------------ MODULE CommandPolicy_proofs ------------------------
(***************************************************************************)
(* Proofs about CommandPolicy, for every alphabet, entry and command: what *)
(* the entry of a list matches is what it is documented to mean, denied    *)
(* entries win, and the baseline cannot be allowed.                        *)
(***************************************************************************)
EXTENDS CommandPolicy, Subsequences_proofs, SequenceTheorems

-----------------------------------------------------------------------------
(* Places of a text: ink, starts of words, ends of words. *)

LEMMA TextPlaces ==
    ASSUME NEW t \in Text
    PROVE  /\ Len(t) \in Nat /\ DOMAIN t = 1..Len(t)
           /\ \A i \in 1..Len(t) : t[i] \in Fragments
           /\ \A i : i \in Ink(t) <=> i \in 1..Len(t) /\ t[i] \notin Spaces
<1>1. Len(t) \in Nat /\ DOMAIN t = 1..Len(t) /\ \A i \in 1..Len(t) : t[i] \in Fragments
  BY LenProperties, ElementOfSeq DEF Text
<1> QED
  BY <1>1 DEF Ink

LEMMA PlacesAreFinite ==
    ASSUME NEW t \in Text
    PROVE  /\ Ink(t) \in SUBSET Nat /\ IsFiniteSet(Ink(t))
           /\ Kept(t) \in SUBSET Nat /\ IsFiniteSet(Kept(t))
           /\ Starts(t) \in SUBSET Nat /\ IsFiniteSet(Starts(t))
           /\ Cardinality(Starts(t)) \in Nat /\ Cardinality(Kept(t)) \in Nat
<1>1. Len(t) \in Nat /\ DOMAIN t = 1..Len(t) /\ \A i : i \in Ink(t) => i \in 1..Len(t)
  BY TextPlaces
<1>2. Ink(t) \in SUBSET (1..Len(t))
  BY <1>1
<1>3. Starts(t) \in SUBSET (1..Len(t))
  BY <1>1 DEF Starts
<1>4. Kept(t) \in SUBSET (1..Len(t))
  BY <1>1 DEF Kept
<1> QED
  BY <1>1, <1>2, <1>3, <1>4, Places

LEMMA StartPlaces ==
    ASSUME NEW t \in Text
    PROVE  \A i : i \in Starts(t) <=> /\ i \in 1..Len(t) /\ t[i] \notin Spaces
                                      /\ i = 1 \/ t[i - 1] \in Spaces
BY TextPlaces DEF Starts

\* A word goes on to the last place before white space or the end of the text.
LEMMA WordEnds ==
    ASSUME NEW t \in Text, NEW i \in Ink(t)
    PROVE  /\ WordEnd(t, i) \in i..Len(t)
           /\ \A n \in i..WordEnd(t, i) : t[n] \notin Spaces
           /\ WordEnd(t, i) + 1 \notin Ink(t)
           /\ \A e \in i..Len(t) :
                 (\A n \in i..e : t[n] \notin Spaces) /\ e + 1 \notin Ink(t) => e = WordEnd(t, i)
<1> DEFINE runs == {j \in i..Len(t) : \A n \in i..j : t[n] \notin Spaces}
           e    == WordEnd(t, i)
<1>1. Len(t) \in Nat /\ i \in 1..Len(t) /\ t[i] \notin Spaces
  BY TextPlaces
<1>2. i \in runs
  BY <1>1
<1>3. runs \in SUBSET (0..Len(t)) /\ \A j \in runs : j \in Nat
  BY <1>1
<1>4. \E m \in runs : \A k \in runs : m >= k
  <2>1. PICK m \in runs : \A k \in runs : k <= m
    BY <1>1, <1>2, <1>3, GreatestNumber
  <2> QED
    BY <1>3, <2>1
<1>5. e \in runs /\ \A k \in runs : e >= k
  BY <1>4 DEF WordEnd, Max
<1>6. e \in i..Len(t) /\ \A n \in i..e : t[n] \notin Spaces
  BY <1>5
<1> HIDE DEF e
<1>7. \A j \in i..Len(t) : j + 1 \in Ink(t) /\ (\A n \in i..j : t[n] \notin Spaces) => j + 1 \in runs
  <2> SUFFICES ASSUME NEW j \in i..Len(t), j + 1 \in Ink(t), \A n \in i..j : t[n] \notin Spaces
               PROVE  j + 1 \in runs
    OBVIOUS
  <2>1. j + 1 \in i..Len(t) /\ t[j + 1] \notin Spaces
    BY <1>1, TextPlaces
  <2>2. \A n \in i..(j + 1) : n \in i..j \/ n = j + 1
    BY <1>1
  <2> QED
    BY <2>1, <2>2
<1>8. e + 1 \notin Ink(t)
  <2>1. e + 1 \notin runs
    BY <1>1, <1>5, <1>6
  <2> QED
    BY <1>6, <1>7, <2>1
<1>9. ASSUME NEW j \in i..Len(t), \A n \in i..j : t[n] \notin Spaces, j + 1 \notin Ink(t)
      PROVE  j = e
  <2>1. j <= e
    BY <1>5, <1>9
  <2>2. ~(j < e)
    <3> SUFFICES ASSUME j < e PROVE FALSE
      OBVIOUS
    <3>1. j + 1 \in i..e /\ j + 1 \in 1..Len(t)
      BY <1>1, <1>6
    <3> QED
      BY <1>6, <1>9, <3>1, TextPlaces
  <2> QED
    BY <1>1, <1>6, <2>1, <2>2
<1> QED
  BY <1>6, <1>8, <1>9 DEF e

\* The words of a text, by the places of their letters.
LEMMA WordIs ==
    ASSUME NEW t \in Text
    PROVE  /\ Words(t) \in Seq(Seq(Fragments)) /\ Len(Words(t)) = Cardinality(Starts(t))
           /\ \A k \in 1..Cardinality(Starts(t)) :
                 LET i == Nth(Starts(t), k)
                     w == Words(t)[k]
                 IN  /\ i \in Starts(t) /\ w \in Seq(Fragments)
                     /\ Len(w) = WordEnd(t, i) - i + 1
                     /\ \A d \in 1..Len(w) : w[d] = t[i + d - 1]
<1> DEFINE n == Cardinality(Starts(t))
<1>1. n \in Nat /\ \A k \in 1..n : Nth(Starts(t), k) \in Starts(t)
  BY PlacesAreFinite, NthIsInverse
<1>2. \A i \in Starts(t) :
        /\ SubSeq(t, i, WordEnd(t, i)) \in Seq(Fragments)
        /\ Len(SubSeq(t, i, WordEnd(t, i))) = WordEnd(t, i) - i + 1
        /\ \A d \in 1..(WordEnd(t, i) - i + 1) : SubSeq(t, i, WordEnd(t, i))[d] = t[i + d - 1]
  <2> SUFFICES ASSUME NEW i \in Starts(t)
               PROVE  /\ SubSeq(t, i, WordEnd(t, i)) \in Seq(Fragments)
                      /\ Len(SubSeq(t, i, WordEnd(t, i))) = WordEnd(t, i) - i + 1
                      /\ \A d \in 1..(WordEnd(t, i) - i + 1) :
                            SubSeq(t, i, WordEnd(t, i))[d] = t[i + d - 1]
    OBVIOUS
  <2> DEFINE e == WordEnd(t, i)
  <2>1. i \in Ink(t) /\ i \in 1..Len(t) /\ Len(t) \in Nat
    BY TextPlaces DEF Starts
  <2>2. e \in i..Len(t)
    BY <2>1, WordEnds
  <2> HIDE DEF e
  <2>3. i \in Int /\ e \in Int /\ i <= e /\ \A j \in i..e : t[j] \in Fragments
    BY <2>1, <2>2, TextPlaces
  <2>4. /\ SubSeq(t, i, e) \in Seq(Fragments)
        /\ Len(SubSeq(t, i, e)) = e - i + 1
        /\ \A d \in 1..(e - i + 1) : SubSeq(t, i, e)[d] = t[i + d - 1]
    BY <2>3, SubSeqProperties
  <2> QED
    BY <2>4 DEF e
<1>3. Words(t) = [k \in 1..n |-> SubSeq(t, Nth(Starts(t), k), WordEnd(t, Nth(Starts(t), k)))]
  BY DEF Words
<1> HIDE DEF n
<1>4. \A k \in 1..n : Words(t)[k] = SubSeq(t, Nth(Starts(t), k), WordEnd(t, Nth(Starts(t), k)))
  BY <1>3
<1>5. Words(t) \in [1..n -> Seq(Fragments)]
  BY <1>1, <1>2, <1>3
<1>6. Words(t) \in Seq(Seq(Fragments)) /\ Len(Words(t)) = n
  BY <1>1, <1>5, SeqDef, LenProperties
<1>7. \A k \in 1..n :
        LET i == Nth(Starts(t), k)
            w == Words(t)[k]
        IN  /\ i \in Starts(t) /\ w \in Seq(Fragments)
            /\ Len(w) = WordEnd(t, i) - i + 1
            /\ \A d \in 1..Len(w) : w[d] = t[i + d - 1]
  BY <1>1, <1>2, <1>4
<1> QED
  BY <1>6, <1>7 DEF n

\* Every place that is not white space belongs to a word, which is the last to
\* start up to there.
LEMMA InWord ==
    ASSUME NEW t \in Text, NEW n \in Ink(t)
    PROVE  \E i \in Starts(t) : /\ i <= n /\ n <= WordEnd(t, i)
                                /\ \A j \in i..n : t[j] \notin Spaces
                                /\ Rank(Starts(t), n) = Rank(Starts(t), i)
<1> DEFINE back == {i \in 1..n : \A j \in i..n : t[j] \notin Spaces}
<1>1. Len(t) \in Nat /\ n \in 1..Len(t) /\ t[n] \notin Spaces /\ n \in Nat
  BY TextPlaces
<1>2. back \in SUBSET Nat /\ n \in back
  BY <1>1
<1>3. PICK i \in back : \A j \in back : i <= j
  BY <1>2, LeastNumber
<1>4. i \in 1..n /\ \A j \in i..n : t[j] \notin Spaces
  BY <1>3
<1>5. i \in Ink(t) /\ i \in Nat
  BY <1>1, <1>4, TextPlaces
<1>6. i \in Starts(t)
  <2> SUFFICES ASSUME i # 1, t[i - 1] \notin Spaces PROVE FALSE
    BY <1>5 DEF Starts
  <2>1. i - 1 \in 1..n /\ \A j \in (i - 1)..n : j = i - 1 \/ j \in i..n
    BY <1>1, <1>4
  <2>2. i - 1 \in back
    BY <1>4, <2>1
  <2> QED
    BY <1>3, <1>5, <2>2
<1>7. n <= WordEnd(t, i)
  <2>1. WordEnd(t, i) \in i..Len(t) /\ WordEnd(t, i) + 1 \notin Ink(t)
    BY <1>5, WordEnds
  <2> SUFFICES ASSUME WordEnd(t, i) < n PROVE FALSE
    BY <1>1, <2>1
  <2>2. WordEnd(t, i) + 1 \in i..n /\ WordEnd(t, i) + 1 \in 1..Len(t)
    BY <1>1, <1>5, <2>1
  <2> QED
    BY <1>4, <2>1, <2>2, TextPlaces
<1>8. Rank(Starts(t), n) = Rank(Starts(t), i)
  <2>1. \A m \in Starts(t) : ~(i < m /\ m <= n)
    <3> SUFFICES ASSUME NEW m \in Starts(t), i < m, m <= n PROVE FALSE
      OBVIOUS
    <3>1. m \in 1..Len(t) /\ (m = 1 \/ t[m - 1] \in Spaces)
      BY StartPlaces
    <3>2. m - 1 \in i..n /\ m # 1
      BY <1>1, <1>4, <3>1
    <3> QED
      BY <1>4, <3>1, <3>2
  <2>2. Starts(t) \in SUBSET Nat /\ i <= n
    BY <1>4, PlacesAreFinite
  <2> QED
    BY <1>1, <1>5, <2>1, <2>2, RankStays
<1> QED
  BY <1>4, <1>6, <1>7, <1>8

-----------------------------------------------------------------------------
(* Normalisation leaves the words as they are, between single blanks. *)

\* White space only where it parts two words, and then one blank.
SingleBlanks(t) ==
    \A i \in 1..Len(t) : t[i] \in Spaces =>
        t[i] = Blank /\ 1 < i /\ i < Len(t) /\ t[i + 1] \notin Spaces

\* Where in t the places of Normalize(t) come from.
Source(t, k) == Nth(Kept(t), k)

LEMMA NormalizeIs ==
    ASSUME NEW t \in Text
    PROVE  /\ Normalize(t) \in Text
           /\ \A k \in 1..Len(Normalize(t)) :
                 /\ Source(t, k) \in Kept(t) /\ Source(t, k) \in 1..Len(t)
                 /\ k \in Ink(Normalize(t)) <=> Source(t, k) \in Ink(t)
                 /\ Normalize(t)[k] = IF Source(t, k) \in Ink(t) THEN t[Source(t, k)] ELSE Blank
           /\ \A k, m \in 1..Len(Normalize(t)) : k < m <=> Source(t, k) < Source(t, m)
           /\ \A i \in Kept(t) : \E k \in 1..Len(Normalize(t)) : Source(t, k) = i
<1> DEFINE K == Kept(t)
           N == Normalize(t)
           n == Cardinality(K)
           blanked == [i \in DOMAIN t |-> IF i \in Ink(t) THEN t[i] ELSE Blank]
<1>1. Len(t) \in Nat /\ DOMAIN t = 1..Len(t) /\ \A i : i \in K => i \in 1..Len(t)
  BY TextPlaces DEF Kept
<1>2. K \in SUBSET Nat /\ IsFiniteSet(K) /\ n \in Nat
  BY PlacesAreFinite
<1>3. /\ \A k \in 1..n : Source(t, k) \in K
      /\ \A k, m \in 1..n : k < m <=> Source(t, k) < Source(t, m)
  BY <1>2, NthIsInverse DEF Source
<1>4. \A i \in K : \E k \in 1..n : Source(t, k) = i
  <2>1. \A i \in K : Rank(K, i) \in 1..n /\ Nth(K, Rank(K, i)) = i
    BY <1>2, NthIsInverse, RankIsMonotone
  <2> QED
    BY <2>1 DEF Source
<1>5. \A i \in 1..Len(t) : blanked[i] \in Fragments
  BY <1>1, TextPlaces, TextAssumption
<1>6. N = [k \in 1..n |-> blanked[Source(t, k)]]
  BY DEF Normalize, Subsequence, Source
<1> HIDE DEF n, K
<1>7. \A k \in 1..n : Source(t, k) \in 1..Len(t)
  BY <1>1, <1>3
<1>8. N \in [1..n -> Fragments]
  BY <1>5, <1>6, <1>7
<1>9. N \in Text /\ Len(N) = n
  BY <1>2, <1>8, SeqDef, LenProperties DEF Text
<1>10. \A k \in 1..n : N[k] = IF Source(t, k) \in Ink(t) THEN t[Source(t, k)] ELSE Blank
  BY <1>1, <1>6, <1>7
<1>11. \A k \in 1..n : k \in Ink(N) <=> Source(t, k) \in Ink(t)
  <2> HIDE DEF N
  <2>1. \A k \in 1..n : k \in Ink(N) <=> N[k] \notin Spaces
    BY <1>9, TextPlaces
  <2>2. \A k \in 1..n : Source(t, k) \in Ink(t) => t[Source(t, k)] \notin Spaces
    BY TextPlaces
  <2>3. Blank \in Spaces
    BY TextAssumption
  <2> QED
    BY <1>10, <2>1, <2>2, <2>3
<1> QED
  BY <1>3, <1>4, <1>7, <1>9, <1>10, <1>11 DEF K

\* Which places follow one another.
LEMMA SourceSteps ==
    ASSUME NEW t \in Text, NEW k \in 1..Len(Normalize(t))
    PROVE  /\ Source(t, k) + 1 \in Ink(t) =>
                 k + 1 \in 1..Len(Normalize(t)) /\ Source(t, k + 1) = Source(t, k) + 1
           /\ Source(t, k) \notin Ink(t) => 1 < k /\ Source(t, k) + 1 \in Ink(t)
           /\ (/\ k + 1 \in 1..Len(Normalize(t))
               /\ Source(t, k) \in Ink(t) /\ Source(t, k + 1) \in Ink(t)) =>
                 Source(t, k + 1) = Source(t, k) + 1
<1> DEFINE n == Len(Normalize(t))
           f(m) == Source(t, m)
<1>1. n \in Nat /\ Len(t) \in Nat
  BY NormalizeIs, TextPlaces
<1>2. /\ \A m \in 1..n : f(m) \in Kept(t) /\ f(m) \in 1..Len(t)
      /\ \A j, m \in 1..n : j < m <=> f(j) < f(m)
      /\ \A i \in Kept(t) : \E m \in 1..n : f(m) = i
  BY NormalizeIs
<1>3. \A i : i \in Kept(t) <=>
               \/ i \in Ink(t)
               \/ i \in 1..Len(t) /\ i + 1 \in Ink(t) /\ \E j \in Ink(t) : j < i
  BY TextPlaces DEF Kept
<1>4. \A i \in Ink(t) : i \in 1..Len(t)
  BY TextPlaces
<1> HIDE DEF n, f
<1>5. k \in 1..n /\ k \in Nat
  BY <1>1 DEF n
<1>6. ASSUME f(k) + 1 \in Ink(t)
      PROVE  k + 1 \in 1..n /\ f(k + 1) = f(k) + 1
  <2>1. PICK m \in 1..n : f(m) = f(k) + 1
    BY <1>2, <1>3, <1>6
  <2>2. k < m
    BY <1>2, <1>5, <2>1
  <2>3. ~(k + 1 < m)
    <3> SUFFICES ASSUME k + 1 < m PROVE FALSE
      OBVIOUS
    <3>1. k + 1 \in 1..n
      BY <1>1, <1>5
    <3>2. f(k) < f(k + 1) /\ f(k + 1) < f(m)
      BY <1>2, <1>5, <3>1
    <3> QED
      BY <1>2, <1>5, <2>1, <3>1, <3>2
  <2>4. m = k + 1
    BY <1>1, <1>5, <2>2, <2>3
  <2> QED
    BY <2>1, <2>4
<1>7. ASSUME f(k) \notin Ink(t)
      PROVE  1 < k /\ f(k) + 1 \in Ink(t)
  <2>1. f(k) + 1 \in Ink(t) /\ \E j \in Ink(t) : j < f(k)
    BY <1>2, <1>3, <1>5, <1>7
  <2>2. PICK m \in 1..n : f(m) < f(k)
    BY <1>2, <1>3, <2>1
  <2>3. m < k
    BY <1>2, <1>5, <2>2
  <2> QED
    BY <1>1, <1>5, <2>1, <2>3
<1>8. ASSUME k + 1 \in 1..n, f(k) \in Ink(t), f(k + 1) \in Ink(t)
      PROVE  f(k + 1) = f(k) + 1
  <2>1. f(k) \in 1..Len(t) /\ f(k + 1) \in 1..Len(t) /\ f(k) < f(k + 1)
    BY <1>2, <1>5, <1>8
  <2> SUFFICES ASSUME f(k) + 1 < f(k + 1) PROVE FALSE
    BY <2>1
  <2> DEFINE q == f(k + 1) - 1
  <2>2. q \in 1..Len(t) /\ f(k) < q /\ q < f(k + 1) /\ q + 1 = f(k + 1)
    BY <1>1, <2>1
  <2>3. q \in Kept(t)
    BY <1>3, <1>8, <2>2
  <2>4. PICK m \in 1..n : f(m) = q
    BY <1>2, <2>3
  <2>5. k < m /\ m < k + 1
    BY <1>2, <1>5, <1>8, <2>2, <2>4
  <2> QED
    BY <1>5, <2>5
<1> QED
  BY <1>6, <1>7, <1>8 DEF f, n

LEMMA NormalIsSingle ==
    ASSUME NEW t \in Text
    PROVE  SingleBlanks(Normalize(t))
<1> DEFINE N == Normalize(t)
<1> SUFFICES ASSUME NEW k \in 1..Len(N), N[k] \in Spaces
             PROVE  N[k] = Blank /\ 1 < k /\ k < Len(N) /\ N[k + 1] \notin Spaces
  BY DEF SingleBlanks
<1>1. N \in Text /\ Len(N) \in Nat
  BY NormalizeIs, TextPlaces
<1>2. k \notin Ink(N)
  BY <1>1, TextPlaces
<1>3. Source(t, k) \notin Ink(t) /\ N[k] = Blank
  BY <1>2, NormalizeIs
<1>4. 1 < k /\ k + 1 \in 1..Len(N) /\ Source(t, k + 1) \in Ink(t)
  BY <1>3, SourceSteps
<1>5. k + 1 \in Ink(N)
  BY <1>4, NormalizeIs
<1> HIDE DEF N
<1>6. N[k + 1] \notin Spaces /\ k < Len(N)
  BY <1>1, <1>4, <1>5, TextPlaces
<1> QED
  BY <1>3, <1>4, <1>6

\* The words of the normal form start where those of the text come from.
LEMMA StartsOfNormal ==
    ASSUME NEW t \in Text
    PROVE  /\ \A k \in 1..Len(Normalize(t)) :
                 k \in Starts(Normalize(t)) <=> Source(t, k) \in Starts(t)
           /\ \A i \in Starts(t) : \E k \in 1..Len(Normalize(t)) : Source(t, k) = i
<1> DEFINE N == Normalize(t)
           f(k) == Source(t, k)
<1>1. N \in Text /\ Len(N) \in Nat /\ Len(t) \in Nat
  BY NormalizeIs, TextPlaces
<1>2. \A i : i \in Ink(t) => i \in Kept(t)
  BY DEF Kept
<1>3. /\ \A k \in 1..Len(N) : f(k) \in 1..Len(t) /\ (k \in Ink(N) <=> f(k) \in Ink(t))
      /\ \A k, m \in 1..Len(N) : k < m <=> f(k) < f(m)
      /\ \A i \in Kept(t) : \E k \in 1..Len(N) : f(k) = i
  BY NormalizeIs
<1>4. \A i : i \in Ink(t) <=> i \in 1..Len(t) /\ t[i] \notin Spaces
  BY TextPlaces
<1>5. \A k : k \in Ink(N) <=> k \in 1..Len(N) /\ N[k] \notin Spaces
  BY <1>1, TextPlaces
<1>6. ASSUME NEW k \in 1..Len(N)
      PROVE  k \in Starts(N) <=> f(k) \in Starts(t)
  <2>1. k \in Starts(N) <=> k \in Ink(N) /\ (k = 1 \/ k - 1 \notin Ink(N))
    <3>1. k = 1 \/ k - 1 \in 1..Len(N)
      BY <1>1
    <3> QED
      BY <1>5, <3>1 DEF Starts
  <2>2. f(k) \in Starts(t) <=> f(k) \in Ink(t) /\ (f(k) = 1 \/ f(k) - 1 \notin Ink(t))
    <3>1. f(k) = 1 \/ f(k) - 1 \in 1..Len(t)
      BY <1>1, <1>3
    <3> QED
      BY <1>4, <3>1 DEF Starts
  <2> HIDE DEF N, f
  <2>3. k = 1 => f(k) = 1 \/ f(k) - 1 \notin Ink(t)
    <3> SUFFICES ASSUME k = 1, f(k) - 1 \in Ink(t) PROVE FALSE
      OBVIOUS
    <3>1. PICK m \in 1..Len(N) : f(m) = f(k) - 1
      BY <1>2, <1>3
    <3>2. f(m) < f(k)
      BY <1>1, <1>3, <3>1
    <3> QED
      BY <1>1, <1>3, <3>2
  <2>4. ASSUME k # 1, f(k) \in Ink(t)
        PROVE  k - 1 \in Ink(N) <=> f(k) # 1 /\ f(k) - 1 \in Ink(t)
    <3>1. k - 1 \in 1..Len(N) /\ (k - 1) + 1 = k /\ k - 1 < k
      BY <1>1, <2>4
    <3>2. f(k - 1) < f(k) /\ f(k - 1) \in 1..Len(t) /\ f(k) \in 1..Len(t)
      BY <1>3, <3>1
    <3>3. f(k - 1) \in Ink(t) => f(k) = f(k - 1) + 1
      BY <2>4, <3>1, SourceSteps DEF N, f
    <3>4. f(k - 1) \notin Ink(t) => f(k) = f(k - 1) + 1
      <4> SUFFICES ASSUME f(k - 1) \notin Ink(t) PROVE f(k) = f(k - 1) + 1
        OBVIOUS
      <4>1. f(k - 1) + 1 \in Ink(t)
        BY <3>1, SourceSteps DEF N, f
      <4>2. f((k - 1) + 1) = f(k - 1) + 1
        BY <3>1, <4>1, SourceSteps DEF N, f
      <4> QED
        BY <3>1, <4>2
    <3>5. f(k) - 1 = f(k - 1) /\ f(k) # 1
      BY <1>1, <3>2, <3>3, <3>4
    <3> QED
      BY <1>3, <3>1, <3>5
  <2> QED
    BY <1>3, <2>1, <2>2, <2>3, <2>4
<1>7. \A i \in Starts(t) : i \in Kept(t)
  BY <1>2 DEF Starts
<1> QED
  BY <1>3, <1>6, <1>7

\* They are as long, and have the same letters.
LEMMA LettersOfNormal ==
    ASSUME NEW t \in Text, NEW k \in Starts(Normalize(t))
    PROVE  LET i == Source(t, k)
           IN  /\ WordEnd(Normalize(t), k) - k = WordEnd(t, i) - i
               /\ \A d \in 0..(WordEnd(t, i) - i) : Normalize(t)[k + d] = t[i + d]
<1> DEFINE N == Normalize(t)
           i == Source(t, k)
           e == WordEnd(t, i)
           far == e - i
           bad == {d \in 0..far : ~(k + d \in 1..Len(N) /\ Source(t, k + d) = i + d)}
<1>1. N \in Text /\ Len(N) \in Nat /\ Len(t) \in Nat
  BY NormalizeIs, TextPlaces
<1>2. k \in 1..Len(N) /\ k \in Ink(N) /\ i \in Ink(t) /\ i \in 1..Len(t)
  <2>1. k \in Ink(N)
    BY DEF Starts
  <2>2. k \in 1..Len(N)
    BY <1>1, <2>1, TextPlaces
  <2> QED
    BY <2>1, <2>2, NormalizeIs
<1>3. /\ e \in i..Len(t) /\ e + 1 \notin Ink(t)
      /\ \A n \in i..e : t[n] \notin Spaces
  BY <1>2, WordEnds
<1>4. \A n \in i..e : n \in Ink(t)
  BY <1>1, <1>2, <1>3, TextPlaces
<1> HIDE DEF N, i, e
<1>5. far \in Nat /\ i \in Nat /\ k \in Nat /\ i + far = e
  BY <1>1, <1>2, <1>3
<1>6. bad = {}
  <2> SUFFICES ASSUME bad # {} PROVE FALSE
    OBVIOUS
  <2>1. bad \in SUBSET Nat
    BY <1>5
  <2>2. PICK d \in bad : \A c \in bad : d <= c
    BY <2>1, LeastNumber
  <2>3. d \in 0..far /\ d # 0
    BY <1>2, <1>5, <2>2 DEF i
  <2>4. d - 1 \in 0..far /\ d - 1 \notin bad
    BY <1>5, <2>2, <2>3
  <2>5. k + (d - 1) \in 1..Len(N) /\ Source(t, k + (d - 1)) = i + (d - 1)
    BY <2>4
  <2>6. i + (d - 1) + 1 \in Ink(t)
    <3>1. i + (d - 1) + 1 \in i..e
      BY <1>5, <2>3
    <3> QED
      BY <1>4, <3>1
  <2>7. /\ k + (d - 1) + 1 \in 1..Len(N)
        /\ Source(t, k + (d - 1) + 1) = i + (d - 1) + 1
    BY <2>5, <2>6, SourceSteps DEF N
  <2>8. k + (d - 1) + 1 = k + d /\ i + (d - 1) + 1 = i + d
    BY <1>5, <2>3
  <2> QED
    BY <2>2, <2>7, <2>8
<1>7. \A d \in 0..far : k + d \in 1..Len(N) /\ Source(t, k + d) = i + d
  BY <1>6
<1>8. \A d \in 0..far : N[k + d] = t[i + d] /\ k + d \in Ink(N)
  <2> SUFFICES ASSUME NEW d \in 0..far
               PROVE  N[k + d] = t[i + d] /\ k + d \in Ink(N)
    OBVIOUS
  <2>1. k + d \in 1..Len(N) /\ Source(t, k + d) = i + d
    BY <1>7
  <2>2. i + d \in Ink(t)
    <3>1. i + d \in i..e
      BY <1>5
    <3> QED
      BY <1>4, <3>1
  <2> QED
    BY <2>1, <2>2, NormalizeIs DEF N
<1>9. k + far \in k..Len(N) /\ k + far \in 1..Len(N)
  BY <1>5, <1>7
<1>10. \A n \in k..(k + far) : N[n] \notin Spaces
  <2> SUFFICES ASSUME NEW n \in k..(k + far) PROVE N[n] \notin Spaces
    OBVIOUS
  <2>1. n - k \in 0..far /\ k + (n - k) = n
    BY <1>5
  <2>2. n \in Ink(N)
    BY <1>8, <2>1
  <2> QED
    BY <1>1, <2>2, TextPlaces
<1>11. (k + far) + 1 \notin Ink(N)
  <2> SUFFICES ASSUME (k + far) + 1 \in Ink(N) PROVE FALSE
    OBVIOUS
  <2>1. (k + far) + 1 \in 1..Len(N)
    BY <1>1, TextPlaces
  <2>2. Source(t, k + far) = e /\ e \in Ink(t)
    <3>1. far \in 0..far
      BY <1>5
    <3>2. e \in i..e
      BY <1>3
    <3> QED
      BY <1>4, <1>5, <1>7, <3>1, <3>2
  <2>3. Source(t, (k + far) + 1) \in Ink(t)
    BY <2>1, NormalizeIs DEF N
  <2>4. Source(t, (k + far) + 1) = e + 1
    BY <1>9, <2>1, <2>2, <2>3, SourceSteps DEF N
  <2> QED
    BY <1>3, <2>3, <2>4
<1>12. WordEnd(N, k) = k + far
  BY <1>1, <1>2, <1>9, <1>10, <1>11, WordEnds
<1>13. WordEnd(N, k) - k = far
  BY <1>5, <1>12
<1> QED
  BY <1>8, <1>13 DEF N, i, e

\* " ".join(t.split()) has the words of t (security.py 179).
LEMMA WordsOfNormal ==
    ASSUME NEW t \in Text
    PROVE  Words(Normalize(t)) = Words(t)
<1> DEFINE N == Normalize(t)
           S == Starts(N)
           T == Starts(t)
           f == [k \in S |-> Source(t, k)]
<1>1. N \in Text
  BY NormalizeIs
<1>2. /\ S \in SUBSET Nat /\ IsFiniteSet(S) /\ T \in SUBSET Nat /\ IsFiniteSet(T)
      /\ Cardinality(S) \in Nat
  BY <1>1, PlacesAreFinite
<1>3. \A k \in S : k \in 1..Len(N)
  BY <1>1, StartPlaces
<1>4. f \in [S -> T] /\ \A i \in T : \E k \in S : f[k] = i
  <2>1. \A k \in S : Source(t, k) \in T
    BY <1>3, StartsOfNormal
  <2>2. \A i \in T : \E k \in S : Source(t, k) = i
    BY StartsOfNormal
  <2> QED
    BY <2>1, <2>2
<1>5. \A j, k \in S : j < k => f[j] < f[k]
  BY <1>3, NormalizeIs
<1> HIDE DEF S, T, f
<1>6. /\ Cardinality(S) = Cardinality(T)
      /\ \A k \in 1..Cardinality(S) : Nth(T, k) = f[Nth(S, k)]
  BY <1>2, <1>4, <1>5, MonotoneImage
<1>7. /\ Words(N) \in Seq(Seq(Fragments)) /\ Len(Words(N)) = Cardinality(S)
      /\ Words(t) \in Seq(Seq(Fragments)) /\ Len(Words(t)) = Cardinality(S)
  BY <1>1, <1>6, WordIs DEF S, T
<1>8. ASSUME NEW k \in 1..Cardinality(S)
      PROVE  Words(N)[k] = Words(t)[k]
  <2> DEFINE j == Nth(S, k)
             i == Nth(T, k)
             v == Words(N)[k]
             w == Words(t)[k]
  <2>1. /\ j \in S /\ v \in Seq(Fragments) /\ Len(v) = WordEnd(N, j) - j + 1
        /\ \A d \in 1..Len(v) : v[d] = N[j + d - 1]
    BY <1>1, WordIs DEF S
  <2>2. /\ i \in T /\ w \in Seq(Fragments) /\ Len(w) = WordEnd(t, i) - i + 1
        /\ \A d \in 1..Len(w) : w[d] = t[i + d - 1]
    BY <1>6, WordIs DEF T
  <2>3. i = Source(t, j)
    BY <1>6, <2>1 DEF f
  <2>4. /\ WordEnd(N, j) - j = WordEnd(t, i) - i
        /\ \A d \in 0..(WordEnd(t, i) - i) : N[j + d] = t[i + d]
    BY <2>1, <2>3, LettersOfNormal DEF S
  <2>5. i \in Nat /\ j \in Nat /\ WordEnd(t, i) \in Nat
    <3>1. i \in Ink(t) /\ i \in 1..Len(t) /\ Len(t) \in Nat
      BY <2>2, TextPlaces DEF T, Starts
    <3>2. WordEnd(t, i) \in i..Len(t)
      BY <3>1, WordEnds
    <3> QED
      BY <1>2, <2>1, <3>1, <3>2
  <2> HIDE DEF i, j, v, w
  <2>6. Len(v) = Len(w)
    BY <2>1, <2>2, <2>4
  <2>7. \A d \in 1..Len(v) : v[d] = w[d]
    <3> SUFFICES ASSUME NEW d \in 1..Len(v) PROVE v[d] = w[d]
      OBVIOUS
    <3>1. d - 1 \in 0..(WordEnd(t, i) - i)
      BY <2>2, <2>5, <2>6
    <3>2. j + d - 1 = j + (d - 1) /\ i + d - 1 = i + (d - 1)
      BY <2>5, <3>1
    <3> QED
      BY <2>1, <2>2, <2>4, <2>6, <3>1, <3>2
  <2>8. v = w
    BY <2>1, <2>2, <2>6, <2>7, SeqEqual
  <2> QED
    BY <2>8 DEF v, w
<1> QED
  BY <1>7, <1>8, SeqEqual DEF N

-----------------------------------------------------------------------------
(* Texts with single blanks are told by their words. *)

\* Texts that begin alike have the same starts of words up to there.
LEMMA SameStarts ==
    ASSUME NEW x \in Text, NEW y \in Text, NEW p \in Nat, p <= Len(x), p <= Len(y),
           \A i \in 1..p : x[i] = y[i]
    PROVE  /\ \A i \in 1..p : i \in Starts(x) <=> i \in Starts(y)
           /\ \A i \in 0..p : Rank(Starts(x), i) = Rank(Starts(y), i)
<1>1. Len(x) \in Nat /\ Len(y) \in Nat
  BY TextPlaces
<1>2. \A i \in 1..p : i \in Starts(x) <=> i \in Starts(y)
  <2> SUFFICES ASSUME NEW i \in 1..p PROVE i \in Starts(x) <=> i \in Starts(y)
    OBVIOUS
  <2>1. i \in 1..Len(x) /\ i \in 1..Len(y) /\ x[i] = y[i]
    BY <1>1
  <2>2. i = 1 \/ (i - 1 \in 1..p /\ x[i - 1] = y[i - 1])
    OBVIOUS
  <2> QED
    BY <2>1, <2>2, StartPlaces
<1>3. \A i \in 0..p : Rank(Starts(x), i) = Rank(Starts(y), i)
  <2> SUFFICES ASSUME NEW i \in 0..p PROVE Rank(Starts(x), i) = Rank(Starts(y), i)
    OBVIOUS
  <2>1. Starts(x) \in SUBSET Nat /\ Starts(y) \in SUBSET Nat /\ i \in Nat /\ i <= i
    BY PlacesAreFinite
  <2>2. \A n \in Starts(x) : ~(i < n /\ n <= i)
    BY <2>1
  <2>3. \A n \in Nat : n <= i => (n \in Starts(x) <=> n \in Starts(y))
    <3> SUFFICES ASSUME NEW n \in Nat, n <= i
                 PROVE  n \in Starts(x) <=> n \in Starts(y)
      OBVIOUS
    <3>1. n \in 1..p \/ n = 0
      OBVIOUS
    <3>2. 0 \notin Starts(x) /\ 0 \notin Starts(y)
      BY StartPlaces
    <3> QED
      BY <1>2, <3>1, <3>2
  <2> QED
    BY <2>1, <2>2, <2>3, RankStays
<1> QED
  BY <1>2, <1>3

\* Where the word of y is that has the number of the word of x that starts at i.
Peer(x, y, i) == Nth(Starts(y), Rank(Starts(x), i))

\* Of two texts with single blanks, y begins with the first m places of x if y
\* has no fewer words, and each word, as far as those places go, begins that of
\* the same number in y, and but for the last one is not longer there.
LEMMA WordsGivePrefix ==
    ASSUME NEW x \in Text, NEW y \in Text, SingleBlanks(x), SingleBlanks(y),
           NEW m \in Nat, m <= Len(x),
           Cardinality(Starts(x)) <= Cardinality(Starts(y)),
           \A i \in Starts(x) : \A d \in 0..(WordEnd(x, i) - i) :
              i + d <= m => /\ Peer(x, y, i) + d <= WordEnd(y, Peer(x, y, i))
                            /\ y[Peer(x, y, i) + d] = x[i + d],
           \A i \in Starts(x) : Rank(Starts(x), i) < Cardinality(Starts(x)) =>
              WordEnd(y, Peer(x, y, i)) - Peer(x, y, i) <= WordEnd(x, i) - i
    PROVE  \A n \in 1..m : n <= Len(y) /\ y[n] = x[n]
<1> DEFINE S == Starts(x)
           T == Starts(y)
           bad == {n \in 1..m : ~(n <= Len(y) /\ y[n] = x[n])}
<1>1. Len(x) \in Nat /\ Len(y) \in Nat
  BY TextPlaces
<1>2. /\ S \in SUBSET Nat /\ IsFiniteSet(S) /\ T \in SUBSET Nat /\ IsFiniteSet(T)
      /\ Cardinality(S) \in Nat /\ Cardinality(T) \in Nat
  BY PlacesAreFinite
<1>3. /\ \A i \in S : Rank(S, i) \in 1..Cardinality(S)
      /\ \A i \in T : Nth(T, Rank(T, i)) = i
  BY <1>2, RankIsMonotone, NthIsInverse
<1> SUFFICES ASSUME bad # {} PROVE FALSE
  OBVIOUS
<1>4. bad \in SUBSET Nat
  OBVIOUS
<1>5. PICK n \in bad : \A k \in bad : n <= k
  BY <1>4, LeastNumber
<1>6. n \in 1..m /\ ~(n <= Len(y) /\ y[n] = x[n])
  BY <1>5
<1> DEFINE p == n - 1
<1>7. p \in Nat /\ p < n /\ n = p + 1 /\ n \in 1..Len(x) /\ p <= Len(x)
  BY <1>1, <1>6
<1>8. \A i \in 1..p : i <= Len(y) /\ y[i] = x[i]
  <2>1. \A i \in 1..p : i \in 1..m /\ ~(n <= i)
    BY <1>6, <1>7
  <2> QED
    BY <1>5, <2>1
<1>9. p <= Len(y)
  <2>1. p = 0 \/ p \in 1..p
    BY <1>7
  <2> QED
    BY <1>1, <1>8, <2>1
<1> HIDE DEF bad, p
<1>10. /\ \A i \in 1..p : i \in S <=> i \in T
       /\ \A i \in 0..p : Rank(S, i) = Rank(T, i)
  BY <1>7, <1>8, <1>9, SameStarts
<1>11. \A i \in S : i <= p => i \in T /\ Peer(x, y, i) = i
  <2> SUFFICES ASSUME NEW i \in S, i <= p PROVE i \in T /\ Peer(x, y, i) = i
    OBVIOUS
  <2>1. i \in 1..p
    BY <1>7, StartPlaces
  <2>2. i \in T /\ Rank(S, i) = Rank(T, i)
    BY <1>7, <1>10, <2>1
  <2> QED
    BY <1>3, <2>2 DEF Peer
<1>12. \A i \in T : /\ i \in Ink(y) /\ i \in 1..Len(y)
                    /\ WordEnd(y, i) \in i..Len(y) /\ WordEnd(y, i) + 1 \notin Ink(y)
  <2>1. \A i \in T : i \in Ink(y) /\ i \in 1..Len(y)
    BY TextPlaces DEF Starts
  <2> QED
    BY <2>1, WordEnds
<1>13. CASE x[n] \notin Spaces
  <2>1. PICK i \in S : i <= n /\ n <= WordEnd(x, i)
    <3>1. n \in Ink(x)
      BY <1>7, <1>13, TextPlaces
    <3> QED
      BY <3>1, InWord
  <2>2. i \in Nat /\ i \in 1..Len(x) /\ WordEnd(x, i) \in Nat /\ i \in Ink(x)
    <3>1. i \in Ink(x) /\ i \in 1..Len(x)
      BY TextPlaces DEF Starts
    <3> QED
      BY <1>1, <3>1, WordEnds
  <2>3. n - i \in 0..(WordEnd(x, i) - i) /\ i + (n - i) = n
    BY <1>7, <2>1, <2>2
  <2>4. /\ Peer(x, y, i) + (n - i) <= WordEnd(y, Peer(x, y, i))
        /\ y[Peer(x, y, i) + (n - i)] = x[n]
    <3>1. i + (n - i) <= m
      BY <1>6, <2>3
    <3> QED
      BY <2>3, <3>1
  <2>5. Peer(x, y, i) = i /\ i \in T
    <3>1. CASE i < n
      BY <1>7, <1>11, <2>2, <3>1
    <3>2. CASE i = n
      <4>1. n \in T
        <5>1. n = 1 \/ x[n - 1] \in Spaces
          BY <3>2, StartPlaces
        <5>2. CASE n = 1
          <6>1. Cardinality(T) # 0
            BY <1>2, <1>3
          <6>2. T # {}
            BY <6>1, FS_EmptySet
          <6>3. 1 <= Len(y)
            BY <1>1, <1>12, <6>2
          <6>4. y[1] \notin Spaces
            BY <1>1, <6>3 DEF SingleBlanks
          <6> QED
            BY <1>1, <5>2, <6>3, <6>4, StartPlaces
        <5>3. CASE n # 1 /\ x[n - 1] \in Spaces
          <6>1. p \in 1..p /\ p \in 1..Len(y) /\ n - 1 = p
            BY <1>1, <1>7, <1>9, <5>3
          <6>2. y[p] \in Spaces
            BY <1>8, <5>3, <6>1
          <6>3. p < Len(y) /\ y[p + 1] \notin Spaces
            BY <6>1, <6>2 DEF SingleBlanks
          <6>4. n \in 1..Len(y) /\ y[n] \notin Spaces /\ y[n - 1] \in Spaces
            BY <1>1, <1>7, <6>1, <6>2, <6>3
          <6> QED
            BY <6>4, StartPlaces
        <5> QED
          BY <5>1, <5>2, <5>3
      <4>2. Rank(S, n) = Rank(S, p) + 1 /\ Rank(T, n) = Rank(T, p) + 1
        BY <1>2, <1>7, <3>2, <4>1, RankGrows
      <4>3. Rank(S, p) = Rank(T, p)
        BY <1>7, <1>10
      <4> QED
        BY <1>3, <3>2, <4>1, <4>2, <4>3 DEF Peer
    <3> QED
      BY <1>7, <2>1, <2>2, <3>1, <3>2
  <2>6. n <= WordEnd(y, i) /\ y[n] = x[n]
    BY <2>3, <2>4, <2>5
  <2>7. n <= Len(y)
    BY <1>1, <1>7, <1>12, <2>2, <2>5, <2>6
  <2> QED
    BY <1>6, <2>6, <2>7
<1>14. CASE x[n] \in Spaces
  <2>1. x[n] = Blank /\ 1 < n /\ n < Len(x) /\ x[n + 1] \notin Spaces
    BY <1>7, <1>14 DEF SingleBlanks
  <2>2. p \in 1..p /\ p \in 1..Len(x) /\ x[p] \notin Spaces
    <3>1. p \in 1..p /\ p \in 1..Len(x)
      BY <1>1, <1>7, <2>1
    <3> QED
      BY <1>7, <1>14, <3>1 DEF SingleBlanks
  <2>3. PICK i \in S : i <= p /\ p <= WordEnd(x, i) /\ Rank(S, p) = Rank(S, i)
    <3>1. p \in Ink(x)
      BY <2>2, TextPlaces
    <3> QED
      BY <3>1, InWord
  <2>4. /\ i \in Ink(x) /\ i \in 1..Len(x) /\ WordEnd(x, i) \in i..Len(x)
        /\ \A j \in i..WordEnd(x, i) : x[j] \notin Spaces
    <3>1. i \in Ink(x) /\ i \in 1..Len(x)
      BY TextPlaces DEF Starts
    <3> QED
      BY <3>1, WordEnds
  <2>5. WordEnd(x, i) = p
    <3>1. WordEnd(x, i) < n
      <4> SUFFICES ASSUME ~(WordEnd(x, i) < n) PROVE FALSE
        OBVIOUS
      <4>1. n \in i..WordEnd(x, i)
        BY <1>1, <1>7, <2>3, <2>4
      <4> QED
        BY <1>14, <2>4, <4>1
    <3> QED
      BY <1>1, <1>7, <2>3, <2>4, <3>1
  <2>6. i \in T /\ Peer(x, y, i) = i
    BY <1>11, <2>3
  <2>7. Rank(S, p) < Cardinality(S)
    <3>1. n + 1 \in S
      <4>1. n + 1 \in 1..Len(x) /\ (n + 1) - 1 = n
        BY <1>1, <1>7, <2>1
      <4> QED
        BY <1>14, <2>1, <4>1, StartPlaces
    <3>2. Rank(S, n + 1) = Rank(S, n) + 1
      BY <1>2, <1>7, <3>1, RankGrows
    <3>3. n \notin S
      BY <1>14, StartPlaces
    <3>4. Rank(S, n) = Rank(S, p)
      <4>1. \A k \in S : ~(p < k /\ k <= n)
        BY <1>2, <1>7, <3>3
      <4>2. /\ S \in SUBSET Nat /\ n \in Nat /\ p \in Nat /\ p <= n
            /\ \A k \in Nat : k <= p => (k \in S <=> k \in S)
        BY <1>2, <1>7
      <4> QED
        BY <4>1, <4>2, RankStays
    <3>5. Rank(S, n) \in Nat /\ Rank(S, n + 1) \in 1..Cardinality(S)
      BY <1>2, <1>3, <1>7, <3>1, RankGrows
    <3> QED
      BY <1>2, <3>2, <3>4, <3>5
  <2>8. WordEnd(y, i) <= p
    <3>1. WordEnd(y, i) - i <= WordEnd(x, i) - i
      BY <2>3, <2>6, <2>7
    <3> QED
      BY <1>1, <1>7, <1>12, <2>4, <2>5, <2>6, <3>1
  <2>9. WordEnd(y, i) = p
    <3> SUFFICES ASSUME WordEnd(y, i) < p PROVE FALSE
      BY <1>1, <1>7, <1>12, <2>4, <2>6, <2>8
    <3> DEFINE e == WordEnd(y, i)
    <3>1. e + 1 \in i..WordEnd(x, i) /\ e + 1 \in 1..p /\ e + 1 \in 1..Len(y)
      BY <1>1, <1>7, <1>9, <1>12, <2>4, <2>5, <2>6
    <3>2. y[e + 1] = x[e + 1] /\ x[e + 1] \notin Spaces
      BY <1>8, <2>4, <3>1
    <3>3. e + 1 \in Ink(y)
      BY <3>1, <3>2, TextPlaces
    <3> QED
      BY <1>12, <2>6, <3>3
  <2>10. n \notin Ink(y)
    BY <1>7, <1>12, <2>6, <2>9
  <2>11. CASE n <= Len(y)
    <3>1. n \in 1..Len(y) /\ y[n] \in Spaces
      BY <1>1, <1>7, <2>10, <2>11, TextPlaces
    <3>2. y[n] = Blank
      BY <3>1 DEF SingleBlanks
    <3> QED
      BY <1>6, <2>1, <2>11, <3>2
  <2>12. CASE ~(n <= Len(y))
    <3>1. Len(y) = p
      BY <1>1, <1>7, <1>9, <2>12
    <3>2. \A j \in T : j <= p
      BY <1>12, <3>1
    <3>3. {j \in T : j <= p} = T
      BY <3>2
    <3>4. Rank(T, p) = Cardinality(T)
      BY <3>3 DEF Rank
    <3>5. Rank(S, p) = Rank(T, p)
      BY <1>7, <1>10
    <3> QED
      BY <1>2, <2>7, <3>4, <3>5
  <2> QED
    BY <2>11, <2>12
<1> QED
  BY <1>13, <1>14

\* What the words say of a common beginning, place by place.
Alike(x, y, m) ==
    /\ Cardinality(Starts(x)) <= Cardinality(Starts(y))
    /\ \A i \in Starts(x) : \A d \in 0..(WordEnd(x, i) - i) :
          i + d <= m => /\ Peer(x, y, i) + d <= WordEnd(y, Peer(x, y, i))
                        /\ y[Peer(x, y, i) + d] = x[i + d]
    /\ \A i \in Starts(x) : Rank(Starts(x), i) < Cardinality(Starts(x)) =>
          WordEnd(y, Peer(x, y, i)) - Peer(x, y, i) <= WordEnd(x, i) - i

\* Only the last word of a text with single blanks ends where the text does.
LEMMA LastWord ==
    ASSUME NEW x \in Text, SingleBlanks(x), Len(x) # 0
    PROVE  /\ Cardinality(Starts(x)) \in Nat /\ Cardinality(Starts(x)) # 0
           /\ \A i \in Starts(x) :
                 /\ i \in 1..Len(x) /\ i \in Ink(x) /\ WordEnd(x, i) \in i..Len(x)
                 /\ Rank(Starts(x), i) \in 1..Cardinality(Starts(x))
                 /\ Rank(Starts(x), i) = Cardinality(Starts(x)) => WordEnd(x, i) = Len(x)
                 /\ Rank(Starts(x), i) < Cardinality(Starts(x)) => WordEnd(x, i) + 1 < Len(x)
<1> DEFINE S == Starts(x)
           l == Len(x)
<1>1. l \in Nat /\ l \in 1..l
  BY TextPlaces
<1>2. S \in SUBSET Nat /\ IsFiniteSet(S) /\ Cardinality(S) \in Nat
  BY PlacesAreFinite
<1>3. /\ \A i \in S : Rank(S, i) \in 1..Cardinality(S)
      /\ \A i, j \in S : i = j <=> Rank(S, i) = Rank(S, j)
      /\ \A i, j \in S : i < j <=> Rank(S, i) < Rank(S, j)
  BY <1>2, RankIsMonotone
<1>4. l \in Ink(x)
  BY <1>1, TextPlaces DEF SingleBlanks
<1>5. \A i \in S : i \in 1..l /\ i \in Ink(x) /\ WordEnd(x, i) \in i..l
  <2>1. \A i \in S : i \in 1..l /\ i \in Ink(x)
    BY TextPlaces DEF Starts
  <2> QED
    BY <2>1, WordEnds
<1>6. PICK z \in S : z <= l /\ l <= WordEnd(x, z) /\ Rank(S, l) = Rank(S, z)
  BY <1>4, InWord
<1>7. Rank(S, z) = Cardinality(S) /\ WordEnd(x, z) = l
  <2>1. {j \in S : j <= l} = S
    BY <1>5
  <2> QED
    <3>1. Rank(S, l) = Cardinality(S)
      BY <2>1 DEF Rank
    <3> HIDE DEF S, l
    <3> QED
      BY <1>1, <1>5, <1>6, <3>1
<1>8. ASSUME NEW i \in S, Rank(S, i) < Cardinality(S)
      PROVE  WordEnd(x, i) + 1 < l
  <2>1. i < z
    BY <1>3, <1>7, <1>8
  <2>2. z - 1 \in i..l /\ z # 1
    BY <1>1, <1>5, <2>1
  <2>3. x[z - 1] \in Spaces
    BY <2>2, StartPlaces
  <2>4. z - 1 \notin i..WordEnd(x, i)
    BY <1>5, <2>3, WordEnds
  <2> QED
    BY <1>1, <1>5, <2>2, <2>4
<1>9. \A i \in S : Rank(S, i) = Cardinality(S) => WordEnd(x, i) = l
  BY <1>3, <1>7
<1>10. Cardinality(S) # 0
  BY <1>2, <1>3, <1>7
<1> HIDE DEF S, l
<1>11. /\ Cardinality(S) \in Nat /\ Cardinality(S) # 0
       /\ \A i \in S :
             /\ i \in 1..l /\ i \in Ink(x) /\ WordEnd(x, i) \in i..l
             /\ Rank(S, i) \in 1..Cardinality(S)
             /\ Rank(S, i) = Cardinality(S) => WordEnd(x, i) = l
             /\ Rank(S, i) < Cardinality(S) => WordEnd(x, i) + 1 < l
  BY <1>2, <1>3, <1>5, <1>8, <1>9, <1>10
<1> QED
  BY <1>11 DEF S, l

\* The converse of WordsGivePrefix, for all places of x but the last.
LEMMA PrefixGivesWords ==
    ASSUME NEW x \in Text, NEW y \in Text, SingleBlanks(x), SingleBlanks(y),
           NEW m \in Nat \ {0}, Len(x) = m + 1,
           \A n \in 1..m : n <= Len(y) /\ y[n] = x[n]
    PROVE  Alike(x, y, m)
<1> DEFINE S == Starts(x)
           T == Starts(y)
           N == Cardinality(S)
<1>1. /\ Len(x) \in Nat /\ Len(y) \in Nat /\ Len(x) # 0 /\ m <= Len(x) /\ m <= Len(y)
      /\ m \in Nat /\ m \in 1..m
  BY TextPlaces
<1>2. /\ S \in SUBSET Nat /\ IsFiniteSet(S) /\ T \in SUBSET Nat /\ IsFiniteSet(T)
      /\ Cardinality(T) \in Nat /\ N \in Nat
  BY PlacesAreFinite
<1>3. /\ N # 0
      /\ \A i \in S : /\ i \in 1..(m + 1) /\ i \in Ink(x) /\ WordEnd(x, i) \in i..(m + 1)
                      /\ Rank(S, i) \in 1..N
                      /\ Rank(S, i) = N => WordEnd(x, i) = m + 1
                      /\ Rank(S, i) < N => WordEnd(x, i) + 1 < m + 1
  BY <1>1, LastWord
<1>4. /\ \A i \in 1..m : i \in S <=> i \in T
      /\ \A i \in 0..m : Rank(S, i) = Rank(T, i)
  BY <1>1, SameStarts
<1>5. \A i \in S : i \in T /\ Rank(T, i) = Rank(S, i)
  <2> SUFFICES ASSUME NEW i \in S PROVE i \in T /\ Rank(T, i) = Rank(S, i)
    OBVIOUS
  <2>1. CASE i \in 1..m
    BY <1>1, <1>4, <2>1
  <2>2. CASE i = m + 1
    <3>1. x[m] \in Spaces
      <4>1. (m + 1) - 1 = m /\ m + 1 # 1
        BY <1>1
      <4> QED
        BY <2>2, <4>1, StartPlaces
    <3>2. y[m] \in Spaces /\ m \in 1..Len(y)
      BY <1>1, <3>1
    <3>3. m + 1 \in 1..Len(y) /\ y[m + 1] \notin Spaces
      BY <1>1, <3>2 DEF SingleBlanks
    <3>4. m + 1 \in T
      <4>1. (m + 1) - 1 = m
        BY <1>1
      <4> QED
        BY <3>2, <3>3, <4>1, StartPlaces
    <3>5. Rank(S, m + 1) = Rank(S, m) + 1 /\ Rank(T, m + 1) = Rank(T, m) + 1
      BY <1>1, <1>2, <2>2, <3>4, RankGrows
    <3> QED
      BY <1>1, <1>4, <2>2, <3>4, <3>5
  <2> QED
    BY <1>1, <1>3, <2>1, <2>2
<1>6. \A i \in T : /\ Nth(T, Rank(T, i)) = i /\ Rank(T, i) \in 1..Cardinality(T)
                   /\ i \in Ink(y) /\ WordEnd(y, i) \in i..Len(y) /\ WordEnd(y, i) + 1 \notin Ink(y)
  <2>1. \A i \in T : Nth(T, Rank(T, i)) = i /\ Rank(T, i) \in 1..Cardinality(T)
    BY <1>2, RankIsMonotone, NthIsInverse
  <2>2. \A i \in T : i \in Ink(y)
    BY DEF Starts
  <2> QED
    BY <2>1, <2>2, WordEnds
<1>7. \A i \in S : Peer(x, y, i) = i
  BY <1>5, <1>6 DEF Peer
<1>8. N <= Cardinality(T)
  <2>1. N \in 1..N
    BY <1>2, <1>3
  <2>2. Nth(S, N) \in S /\ Rank(S, Nth(S, N)) = N
    BY <1>2, <2>1, NthIsInverse
  <2>3. N \in 1..Cardinality(T)
    BY <1>5, <1>6, <2>2
  <2> QED
    BY <1>2, <2>3
<1>9. ASSUME NEW i \in S, NEW d \in 0..(WordEnd(x, i) - i), i + d <= m
      PROVE  i + d <= WordEnd(y, i) /\ y[i + d] = x[i + d]
  <2>1. i + d \in 1..m /\ i \in 1..m
    BY <1>1, <1>3, <1>9
  <2>2. \A n \in i..(i + d) : n \in Ink(y)
    <3> SUFFICES ASSUME NEW n \in i..(i + d) PROVE n \in Ink(y)
      OBVIOUS
    <3>1. n \in i..WordEnd(x, i) /\ n \in 1..m
      BY <1>3, <1>9, <2>1
    <3>2. x[n] \notin Spaces /\ n \in 1..Len(y) /\ y[n] = x[n]
      BY <1>1, <1>3, <3>1, WordEnds
    <3> QED
      BY <3>2, TextPlaces
  <2>3. i + d <= WordEnd(y, i)
    <3> SUFFICES ASSUME WordEnd(y, i) < i + d PROVE FALSE
      BY <1>1, <1>5, <1>6, <2>1
    <3>1. WordEnd(y, i) + 1 \in i..(i + d)
      BY <1>1, <1>5, <1>6, <2>1
    <3> QED
      BY <1>5, <1>6, <2>2, <3>1
  <2> QED
    BY <2>1, <2>3
<1>10. ASSUME NEW i \in S, Rank(S, i) < N
       PROVE  WordEnd(y, i) <= WordEnd(x, i)
  <2> DEFINE e == WordEnd(x, i)
  <2>1. e + 1 \in 1..m /\ e \in i..Len(x) /\ i \in 1..(m + 1)
    BY <1>1, <1>3, <1>10
  <2>2. e + 1 \notin Ink(y)
    <3>1. e + 1 \notin Ink(x) /\ e + 1 \in 1..Len(x)
      BY <1>1, <1>3, <2>1, WordEnds
    <3>2. y[e + 1] \in Spaces
      BY <2>1, <3>1, TextPlaces
    <3> QED
      BY <3>2, TextPlaces
  <2> SUFFICES ASSUME e < WordEnd(y, i) PROVE FALSE
    BY <1>1, <1>5, <1>6, <2>1
  <2>3. e + 1 \in i..WordEnd(y, i) /\ e + 1 \in 1..Len(y)
    BY <1>1, <1>5, <1>6, <2>1
  <2>4. y[e + 1] \notin Spaces
    BY <1>5, <1>6, <2>3, WordEnds
  <2> QED
    BY <2>2, <2>3, <2>4, TextPlaces
<1>11. \A i \in S : Rank(S, i) < N => WordEnd(y, i) - i <= WordEnd(x, i) - i
  BY <1>1, <1>3, <1>5, <1>6, <1>10
<1> HIDE DEF S, T, N
<1>12. /\ N <= Cardinality(T)
       /\ \A i \in S : \A d \in 0..(WordEnd(x, i) - i) :
             i + d <= m => /\ Peer(x, y, i) + d <= WordEnd(y, Peer(x, y, i))
                           /\ y[Peer(x, y, i) + d] = x[i + d]
       /\ \A i \in S : Rank(S, i) < N =>
             WordEnd(y, Peer(x, y, i)) - Peer(x, y, i) <= WordEnd(x, i) - i
  BY <1>7, <1>8, <1>9, <1>11
<1> QED
  BY <1>12 DEF S, T, N, Alike

-----------------------------------------------------------------------------
(* Beginnings of sequences, and of the words of a text. *)

LEMMA PrefixPlaces ==
    ASSUME NEW A, NEW s \in Seq(A), NEW t \in Seq(A)
    PROVE  IsPrefix(s, t) <=> Len(s) <= Len(t) /\ \A i \in 1..Len(s) : s[i] = t[i]
<1> DEFINE n == Len(s)
<1>1. /\ n \in Nat /\ Len(t) \in Nat
      /\ \A i \in 1..n : s[i] \in A
      /\ \A i \in 1..Len(t) : t[i] \in A
  BY LenProperties, ElementOfSeq
<1> SUFFICES ASSUME n <= Len(t)
             PROVE  SubSeq(s, 1, n) = SubSeq(t, 1, n) <=> \A i \in 1..n : s[i] = t[i]
  BY DEF IsPrefix
<1>2. \A i \in 1..n : t[i] \in A
  BY <1>1
<1> HIDE DEF n
<1>3. /\ SubSeq(s, 1, n) \in Seq(A) /\ Len(SubSeq(s, 1, n)) = n
      /\ \A i \in 1..n : SubSeq(s, 1, n)[i] = s[i]
  <2>1. /\ SubSeq(s, 1, n) \in Seq(A)
        /\ Len(SubSeq(s, 1, n)) = IF 1 <= n THEN n - 1 + 1 ELSE 0
        /\ \A i \in 1..(n - 1 + 1) : SubSeq(s, 1, n)[i] = s[1 + i - 1]
    BY <1>1, SubSeqProperties
  <2> QED
    BY <1>1, <2>1
<1>4. /\ SubSeq(t, 1, n) \in Seq(A) /\ Len(SubSeq(t, 1, n)) = n
      /\ \A i \in 1..n : SubSeq(t, 1, n)[i] = t[i]
  <2>1. /\ SubSeq(t, 1, n) \in Seq(A)
        /\ Len(SubSeq(t, 1, n)) = IF 1 <= n THEN n - 1 + 1 ELSE 0
        /\ \A i \in 1..(n - 1 + 1) : SubSeq(t, 1, n)[i] = t[1 + i - 1]
    BY <1>1, <1>2, SubSeqProperties
  <2> QED
    BY <1>1, <2>1
<1>5. ASSUME SubSeq(s, 1, n) = SubSeq(t, 1, n)
      PROVE  \A i \in 1..n : s[i] = t[i]
  BY <1>3, <1>4, <1>5
<1>6. ASSUME \A i \in 1..n : s[i] = t[i]
      PROVE  SubSeq(s, 1, n) = SubSeq(t, 1, n)
  BY <1>3, <1>4, <1>6, SeqEqual
<1> QED
  BY <1>5, <1>6

LEMMA FrontPlaces ==
    ASSUME NEW A, NEW s \in Seq(A), Len(s) # 0
    PROVE  /\ Front(s) \in Seq(A) /\ Len(Front(s)) = Len(s) - 1
           /\ \A i \in 1..(Len(s) - 1) : Front(s)[i] = s[i]
<1> DEFINE n == Len(s)
<1>1. n \in Nat /\ \A i \in 1..n : s[i] \in A
  BY LenProperties, ElementOfSeq
<1>2. \A i \in 1..(n - 1) : s[i] \in A
  BY <1>1
<1> HIDE DEF n
<1>3. /\ SubSeq(s, 1, n - 1) \in Seq(A)
      /\ Len(SubSeq(s, 1, n - 1)) = IF 1 <= n - 1 THEN (n - 1) - 1 + 1 ELSE 0
      /\ \A i \in 1..((n - 1) - 1 + 1) : SubSeq(s, 1, n - 1)[i] = s[1 + i - 1]
  BY <1>1, <1>2, SubSeqProperties
<1>4. n # 0
  BY DEF n
<1>5. /\ Len(SubSeq(s, 1, n - 1)) = n - 1
      /\ \A i \in 1..(n - 1) : SubSeq(s, 1, n - 1)[i] = s[i]
  BY <1>1, <1>3, <1>4
<1> QED
  BY <1>3, <1>5 DEF Front, n

\* A prefix but for the last place.
LEMMA FrontIsPrefix ==
    ASSUME NEW A, NEW s \in Seq(A), NEW t \in Seq(A), Len(s) # 0
    PROVE  IsPrefix(Front(s), t) <=>
              Len(s) - 1 <= Len(t) /\ \A i \in 1..(Len(s) - 1) : s[i] = t[i]
<1>1. /\ Front(s) \in Seq(A) /\ Len(Front(s)) = Len(s) - 1
      /\ \A i \in 1..(Len(s) - 1) : Front(s)[i] = s[i]
  BY FrontPlaces
<1>2. IsPrefix(Front(s), t) <=>
         Len(Front(s)) <= Len(t) /\ \A i \in 1..Len(Front(s)) : Front(s)[i] = t[i]
  BY <1>1, PrefixPlaces
<1> QED
  BY <1>1, <1>2

\* WordIs, counted from the start of each word.
LEMMA WordAt ==
    ASSUME NEW t \in Text, NEW k \in 1..Cardinality(Starts(t))
    PROVE  LET i == Nth(Starts(t), k)
           IN  /\ i \in Starts(t) /\ Rank(Starts(t), i) = k
               /\ i \in Nat /\ WordEnd(t, i) \in Nat /\ i <= WordEnd(t, i)
               /\ Words(t)[k] \in Seq(Fragments) /\ Len(Words(t)[k]) = WordEnd(t, i) - i + 1
               /\ \A d \in 0..(WordEnd(t, i) - i) : Words(t)[k][d + 1] = t[i + d]
<1> DEFINE i == Nth(Starts(t), k)
           w == Words(t)[k]
<1>1. i \in Starts(t) /\ Rank(Starts(t), i) = k
  BY PlacesAreFinite, NthIsInverse
<1>2. i \in Ink(t) /\ i \in 1..Len(t) /\ Len(t) \in Nat
  BY <1>1, TextPlaces DEF Starts
<1>3. WordEnd(t, i) \in i..Len(t)
  BY <1>2, WordEnds
<1>4. /\ w \in Seq(Fragments) /\ Len(w) = WordEnd(t, i) - i + 1
      /\ \A d \in 1..Len(w) : w[d] = t[i + d - 1]
  BY WordIs
<1> HIDE DEF i, w
<1>5. ASSUME NEW d \in 0..(WordEnd(t, i) - i)
      PROVE  w[d + 1] = t[i + d]
  <2>1. d + 1 \in 1..Len(w) /\ i + (d + 1) - 1 = i + d
    BY <1>2, <1>3, <1>4
  <2> QED
    BY <1>4, <2>1
<1> QED
  BY <1>1, <1>2, <1>3, <1>4, <1>5 DEF i, w

\* What a glob entry asks of the words of a command is what Alike says of the places.
LEMMA WordsBegin ==
    ASSUME NEW x \in Text, NEW y \in Text, SingleBlanks(x), Len(x) # 0
    PROVE  LET e == Words(x)
               c == Words(y)
               n == Len(e)
           IN  (Len(c) >= n /\ IsPrefix(Front(e), c) /\ IsPrefix(Front(e[n]), c[n]))
                   <=> Alike(x, y, Len(x) - 1)
<1> DEFINE S == Starts(x)
           T == Starts(y)
           e == Words(x)
           c == Words(y)
           n == Cardinality(S)
<1>1. /\ e \in Seq(Seq(Fragments)) /\ Len(e) = n
      /\ c \in Seq(Seq(Fragments)) /\ Len(c) = Cardinality(T) /\ Cardinality(T) \in Nat
  BY WordIs, PlacesAreFinite
<1>2. /\ n \in Nat /\ n # 0 /\ Len(x) \in Nat
      /\ \A i \in S : /\ i \in Nat /\ WordEnd(x, i) \in Nat /\ i <= WordEnd(x, i)
                      /\ Rank(S, i) \in 1..n
                      /\ Rank(S, i) = n => WordEnd(x, i) = Len(x)
                      /\ Rank(S, i) < n => WordEnd(x, i) + 1 < Len(x)
  <2>1. Len(x) \in Nat
    BY TextPlaces
  <2>2. /\ n \in Nat /\ n # 0
        /\ \A i \in S : /\ i \in 1..Len(x) /\ WordEnd(x, i) \in i..Len(x)
                        /\ Rank(S, i) \in 1..n
                        /\ Rank(S, i) = n => WordEnd(x, i) = Len(x)
                        /\ Rank(S, i) < n => WordEnd(x, i) + 1 < Len(x)
    BY LastWord
  <2> QED
    BY <2>1, <2>2
<1>3. \A i \in S : Nth(S, Rank(S, i)) = i
  BY PlacesAreFinite, NthIsInverse
<1>4. ASSUME NEW k \in 1..n
      PROVE  LET i == Nth(S, k)
             IN  /\ i \in S /\ Rank(S, i) = k
                 /\ e[k] \in Seq(Fragments) /\ Len(e[k]) = WordEnd(x, i) - i + 1
                 /\ \A d \in 0..(WordEnd(x, i) - i) : e[k][d + 1] = x[i + d]
  BY WordAt
<1>5. ASSUME NEW k \in 1..Cardinality(T)
      PROVE  LET i == Nth(T, k)
             IN  /\ i \in Nat /\ WordEnd(y, i) \in Nat /\ i <= WordEnd(y, i)
                 /\ c[k] \in Seq(Fragments) /\ Len(c[k]) = WordEnd(y, i) - i + 1
                 /\ \A d \in 0..(WordEnd(y, i) - i) : c[k][d + 1] = y[i + d]
  BY WordAt
<1>6. CASE ~(n <= Cardinality(T))
  BY <1>1, <1>2, <1>6 DEF Alike
<1>7. CASE n <= Cardinality(T)
  <2> DEFINE E(k) == WordEnd(x, Nth(S, k)) - Nth(S, k)
             F(k) == WordEnd(y, Nth(T, k)) - Nth(T, k)
             same(k, d) == y[Nth(T, k) + d] = x[Nth(S, k) + d]
  <2>1. \A k \in 1..n : k \in 1..Cardinality(T)
    BY <1>1, <1>2, <1>7
  <2>2. \A k \in 1..n : /\ e[k] \in Seq(Fragments) /\ Len(e[k]) = E(k) + 1 /\ E(k) \in Nat
                        /\ c[k] \in Seq(Fragments) /\ Len(c[k]) = F(k) + 1 /\ F(k) \in Nat
    <3> SUFFICES ASSUME NEW k \in 1..n
                 PROVE  /\ e[k] \in Seq(Fragments) /\ Len(e[k]) = E(k) + 1 /\ E(k) \in Nat
                        /\ c[k] \in Seq(Fragments) /\ Len(c[k]) = F(k) + 1 /\ F(k) \in Nat
      OBVIOUS
    <3>1. Nth(S, k) \in S /\ e[k] \in Seq(Fragments) /\ Len(e[k]) = E(k) + 1
      BY <1>4
    <3>2. E(k) \in Nat
      BY <1>2, <3>1
    <3>3. /\ Nth(T, k) \in Nat /\ WordEnd(y, Nth(T, k)) \in Nat
          /\ Nth(T, k) <= WordEnd(y, Nth(T, k))
          /\ c[k] \in Seq(Fragments) /\ Len(c[k]) = F(k) + 1
      BY <1>5, <2>1
    <3> QED
      BY <3>1, <3>2, <3>3
  <2>3. \A k \in 1..n : \A d \in 0..E(k) : d <= F(k) => (c[k][d + 1] = e[k][d + 1] <=> same(k, d))
    <3> SUFFICES ASSUME NEW k \in 1..n, NEW d \in 0..E(k), d <= F(k)
                 PROVE  c[k][d + 1] = e[k][d + 1] <=> same(k, d)
      OBVIOUS
    <3>1. e[k][d + 1] = x[Nth(S, k) + d]
      BY <1>4
    <3>2. d \in 0..F(k)
      BY <2>2
    <3>3. c[k][d + 1] = y[Nth(T, k) + d]
      BY <1>5, <2>1, <3>2
    <3> QED
      BY <3>1, <3>3
  <2>4. Alike(x, y, Len(x) - 1) <=>
           /\ \A k \in 1..n : \A d \in 0..E(k) :
                 (k = n => d < E(k)) => d <= F(k) /\ same(k, d)
           /\ \A k \in 1..n : k < n => F(k) <= E(k)
    <3>1. \A i \in S : Rank(S, i) \in 1..n /\ Nth(S, Rank(S, i)) = i
                       /\ Peer(x, y, i) = Nth(T, Rank(S, i))
      BY <1>2, <1>3 DEF Peer
    <3>2. \A k \in 1..n : Nth(S, k) \in S /\ Rank(S, Nth(S, k)) = k
      BY <1>4
    <3>3. \A k \in 1..n : \A d \in 0..E(k) :
             Nth(S, k) + d <= Len(x) - 1 <=> (k = n => d < E(k))
      <4> SUFFICES ASSUME NEW k \in 1..n, NEW d \in 0..E(k)
                   PROVE  Nth(S, k) + d <= Len(x) - 1 <=> (k = n => d < E(k))
        OBVIOUS
      <4> DEFINE i == Nth(S, k)
      <4>1. /\ i \in Nat /\ WordEnd(x, i) \in Nat /\ i <= WordEnd(x, i)
            /\ k = n => WordEnd(x, i) = Len(x)
            /\ k < n => WordEnd(x, i) + 1 < Len(x)
        BY <1>2, <3>2
      <4>2. d \in 0..(WordEnd(x, i) - i) /\ E(k) = WordEnd(x, i) - i
        OBVIOUS
      <4> HIDE DEF i, E
      <4>3. i + d <= Len(x) - 1 <=> (k = n => d < E(k))
        <5>1. CASE k = n
          BY <1>2, <4>1, <4>2, <5>1
        <5>2. CASE k < n
          BY <1>2, <4>1, <4>2, <5>2
        <5> QED
          BY <1>2, <5>1, <5>2
      <4> QED
        BY <4>3 DEF i
    <3>4. \A k \in 1..n : Nth(T, k) \in Nat /\ WordEnd(y, Nth(T, k)) \in Nat
      BY <1>5, <2>1
    <3>5. \A k \in 1..n : \A d \in Nat :
             Nth(T, k) + d <= WordEnd(y, Nth(T, k)) <=> d <= F(k)
      BY <3>4
    <3>6. (\A i \in S : \A d \in 0..(WordEnd(x, i) - i) :
              i + d <= Len(x) - 1 => /\ Peer(x, y, i) + d <= WordEnd(y, Peer(x, y, i))
                                     /\ y[Peer(x, y, i) + d] = x[i + d])
          <=> \A k \in 1..n : \A d \in 0..E(k) :
                 (k = n => d < E(k)) => d <= F(k) /\ same(k, d)
      <4>1. ASSUME \A i \in S : \A d \in 0..(WordEnd(x, i) - i) :
                      i + d <= Len(x) - 1 => /\ Peer(x, y, i) + d <= WordEnd(y, Peer(x, y, i))
                                             /\ y[Peer(x, y, i) + d] = x[i + d],
                   NEW k \in 1..n, NEW d \in 0..E(k), k = n => d < E(k)
            PROVE  d <= F(k) /\ same(k, d)
        <5>1. Nth(S, k) \in S /\ Peer(x, y, Nth(S, k)) = Nth(T, k)
          BY <3>1, <3>2
        <5>2. Nth(S, k) + d <= Len(x) - 1
          BY <3>3, <4>1
        <5>3. /\ Nth(T, k) + d <= WordEnd(y, Nth(T, k))
              /\ y[Nth(T, k) + d] = x[Nth(S, k) + d]
          BY <4>1, <5>1, <5>2
        <5> QED
          BY <3>5, <5>3
      <4>2. ASSUME \A k \in 1..n : \A d \in 0..E(k) :
                      (k = n => d < E(k)) => d <= F(k) /\ same(k, d),
                   NEW i \in S, NEW d \in 0..(WordEnd(x, i) - i), i + d <= Len(x) - 1
            PROVE  /\ Peer(x, y, i) + d <= WordEnd(y, Peer(x, y, i))
                   /\ y[Peer(x, y, i) + d] = x[i + d]
        <5> DEFINE k == Rank(S, i)
        <5>1. k \in 1..n /\ Nth(S, k) = i /\ Peer(x, y, i) = Nth(T, k)
          BY <3>1
        <5> HIDE DEF k
        <5>2. d \in 0..E(k) /\ (k = n => d < E(k))
          BY <3>3, <4>2, <5>1
        <5>3. d <= F(k) /\ same(k, d)
          BY <4>2, <5>1, <5>2
        <5> QED
          BY <3>5, <5>1, <5>3
      <4> QED
        BY <4>1, <4>2
    <3>7. (\A i \in S : Rank(S, i) < n => WordEnd(y, Peer(x, y, i)) - Peer(x, y, i) <= WordEnd(x, i) - i)
          <=> \A k \in 1..n : k < n => F(k) <= E(k)
      BY <3>1, <3>2
    <3> QED
      BY <1>7, <3>6, <3>7 DEF Alike
  <2>5. IsPrefix(Front(e), c) <=> \A k \in 1..(n - 1) : e[k] = c[k]
    <3>1. IsPrefix(Front(e), c) <=>
             Len(e) - 1 <= Len(c) /\ \A k \in 1..(Len(e) - 1) : e[k] = c[k]
      <4>1. e \in Seq(Seq(Fragments)) /\ c \in Seq(Seq(Fragments)) /\ Len(e) # 0
        BY <1>1, <1>2
      <4> HIDE DEF e, c
      <4> QED
        BY <4>1, FrontIsPrefix
    <3> QED
      BY <1>1, <1>2, <1>7, <3>1
  <2>6. ASSUME NEW k \in 1..(n - 1)
        PROVE  e[k] = c[k] <=> /\ \A d \in 0..E(k) : d <= F(k) /\ same(k, d)
                               /\ F(k) <= E(k)
    <3>1. /\ k \in 1..n
          /\ e[k] \in Seq(Fragments) /\ Len(e[k]) = E(k) + 1 /\ E(k) \in Nat
          /\ c[k] \in Seq(Fragments) /\ Len(c[k]) = F(k) + 1 /\ F(k) \in Nat
      BY <1>2, <2>2
    <3>2. \A d \in 0..E(k) : d <= F(k) => (c[k][d + 1] = e[k][d + 1] <=> same(k, d))
      BY <2>3, <3>1
    <3> DEFINE u == e[k]
               v == c[k]
    <3> HIDE DEF u, v, E, F, same, e, c
    <3>3. ASSUME u = v
          PROVE  F(k) = E(k) /\ \A d \in 0..E(k) : d <= F(k) /\ same(k, d)
      <4>1. F(k) = E(k)
        BY <3>1, <3>3 DEF u, v
      <4> QED
        BY <3>1, <3>2, <3>3, <4>1 DEF u, v
    <3>4. ASSUME F(k) <= E(k), \A d \in 0..E(k) : d <= F(k) /\ same(k, d)
          PROVE  u = v
      <4>1. E(k) \in 0..E(k)
        BY <3>1
      <4>2. F(k) = E(k)
        BY <3>1, <3>4, <4>1
      <4>3. \A j \in 1..Len(u) : u[j] = v[j]
        <5> SUFFICES ASSUME NEW j \in 1..Len(u) PROVE u[j] = v[j]
          OBVIOUS
        <5>1. j - 1 \in 0..E(k) /\ (j - 1) + 1 = j
          BY <3>1 DEF u
        <5>2. c[k][(j - 1) + 1] = e[k][(j - 1) + 1]
          BY <3>2, <3>4, <5>1
        <5> QED
          BY <5>1, <5>2 DEF u, v
      <4> QED
        BY <3>1, <4>2, <4>3, SeqEqual DEF u, v
    <3> QED
      BY <3>1, <3>3, <3>4 DEF u, v
  <2>7. IsPrefix(Front(e[n]), c[n]) <=> \A d \in 0..E(n) : d < E(n) => d <= F(n) /\ same(n, d)
    <3>1. n \in 1..n
      BY <1>2
    <3>2. /\ e[n] \in Seq(Fragments) /\ Len(e[n]) = E(n) + 1 /\ E(n) \in Nat
          /\ c[n] \in Seq(Fragments) /\ Len(c[n]) = F(n) + 1 /\ F(n) \in Nat
      BY <2>2, <3>1
    <3>3. \A d \in 0..E(n) : d <= F(n) => (c[n][d + 1] = e[n][d + 1] <=> same(n, d))
      BY <2>3, <3>1
    <3> DEFINE u == e[n]
               v == c[n]
    <3> HIDE DEF u, v, E, F, same, e, c
    <3>4. Len(u) - 1 = E(n) /\ Len(u) # 0
      BY <3>2 DEF u
    <3>5. IsPrefix(Front(u), v) <=> Len(u) - 1 <= Len(v) /\ \A i \in 1..(Len(u) - 1) : u[i] = v[i]
      BY <3>2, <3>4, FrontIsPrefix DEF u, v
    <3>6. IsPrefix(Front(u), v) <=> E(n) <= F(n) + 1 /\ \A i \in 1..E(n) : u[i] = v[i]
      BY <3>2, <3>4, <3>5 DEF v
    <3>7. ASSUME E(n) <= F(n) + 1, \A i \in 1..E(n) : u[i] = v[i],
                 NEW d \in 0..E(n), d < E(n)
          PROVE  d <= F(n) /\ same(n, d)
      <4>1. d <= F(n) /\ d + 1 \in 1..E(n)
        BY <3>2, <3>7
      <4>2. u[d + 1] = v[d + 1]
        BY <3>7, <4>1
      <4> QED
        BY <3>3, <4>1, <4>2 DEF u, v
    <3>8. ASSUME \A d \in 0..E(n) : d < E(n) => d <= F(n) /\ same(n, d)
          PROVE  E(n) <= F(n) + 1 /\ \A i \in 1..E(n) : u[i] = v[i]
      <4>1. E(n) <= F(n) + 1
        <5>1. E(n) = 0 \/ (E(n) - 1 \in 0..E(n) /\ E(n) - 1 < E(n))
          BY <3>2
        <5>2. E(n) = 0 \/ E(n) - 1 <= F(n)
          BY <3>8, <5>1
        <5> QED
          BY <3>2, <5>2
      <4>2. ASSUME NEW i \in 1..E(n) PROVE u[i] = v[i]
        <5>1. i - 1 \in 0..E(n) /\ i - 1 < E(n) /\ (i - 1) + 1 = i
          BY <3>2
        <5>2. c[n][(i - 1) + 1] = e[n][(i - 1) + 1]
          BY <3>3, <3>8, <5>1
        <5> QED
          BY <5>1, <5>2 DEF u, v
      <4> QED
        BY <4>1, <4>2
    <3>9. IsPrefix(Front(u), v) <=> \A d \in 0..E(n) : d < E(n) => d <= F(n) /\ same(n, d)
      BY <3>6, <3>7, <3>8
    <3> QED
      BY <3>9 DEF u, v
  <2> DEFINE P(k) == \A d \in 0..E(k) : (k = n => d < E(k)) => d <= F(k) /\ same(k, d)
             Q(k) == k < n => F(k) <= E(k)
             A    == \A k \in 1..(n - 1) : e[k] = c[k]
             B    == IsPrefix(Front(e[n]), c[n])
  <2>8. \A k \in 1..(n - 1) : e[k] = c[k] <=> P(k) /\ Q(k)
    <3> SUFFICES ASSUME NEW k \in 1..(n - 1) PROVE e[k] = c[k] <=> P(k) /\ Q(k)
      OBVIOUS
    <3>1. k # n /\ k < n
      BY <1>2
    <3> HIDE DEF E, F, same, e, c
    <3> QED
      BY <2>6, <3>1
  <2>9. B <=> P(n) /\ Q(n)
    <3>1. ~(n < n)
      BY <1>2
    <3> HIDE DEF E, F, same, e, c
    <3> QED
      BY <2>7, <3>1
  <2> HIDE DEF P, Q, B
  <2>10. (A /\ B) <=> \A k \in 1..n : P(k) /\ Q(k)
    <3>1. \A k : k \in 1..n <=> k \in 1..(n - 1) \/ k = n
      BY <1>2
    <3> HIDE DEF e, c, n
    <3> QED
      BY <2>8, <2>9, <3>1
  <2>11. (\A k \in 1..n : P(k) /\ Q(k)) <=> Alike(x, y, Len(x) - 1)
    BY <2>4 DEF P, Q
  <2>12. (IsPrefix(Front(e), c) /\ B) <=> Alike(x, y, Len(x) - 1)
    BY <2>5, <2>10, <2>11
  <2>13. Len(e) = n /\ Len(c) >= Len(e)
    BY <1>1, <1>2, <1>7
  <2> QED
    BY <2>12, <2>13 DEF B
<1> QED
  BY <1>1, <1>2, <1>6, <1>7

\* Texts with the same words are alike in all places.
LEMMA SameWordsAlike ==
    ASSUME NEW x \in Text, NEW y \in Text, Words(x) = Words(y)
    PROVE  Alike(x, y, Len(x))
<1> DEFINE S == Starts(x)
           T == Starts(y)
<1>1. Cardinality(S) = Cardinality(T) /\ Cardinality(S) \in Nat
  BY WordIs, PlacesAreFinite
<1>2. \A i \in S : Rank(S, i) \in 1..Cardinality(S) /\ Nth(S, Rank(S, i)) = i
  BY PlacesAreFinite, RankIsMonotone, NthIsInverse
<1>3. ASSUME NEW i \in S
      PROVE  /\ \A d \in 0..(WordEnd(x, i) - i) : /\ Peer(x, y, i) + d <= WordEnd(y, Peer(x, y, i))
                                                  /\ y[Peer(x, y, i) + d] = x[i + d]
             /\ WordEnd(y, Peer(x, y, i)) - Peer(x, y, i) <= WordEnd(x, i) - i
  <2> DEFINE k == Rank(S, i)
             p == Peer(x, y, i)
  <2>1. k \in 1..Cardinality(S) /\ k \in 1..Cardinality(T) /\ Nth(S, k) = i /\ Nth(T, k) = p
    BY <1>1, <1>2 DEF Peer
  <2> HIDE DEF k, p
  <2>2. /\ i \in Nat /\ WordEnd(x, i) \in Nat
        /\ Len(Words(x)[k]) = WordEnd(x, i) - i + 1
        /\ \A d \in 0..(WordEnd(x, i) - i) : Words(x)[k][d + 1] = x[i + d]
    BY <2>1, WordAt
  <2>3. /\ p \in Nat /\ WordEnd(y, p) \in Nat
        /\ Len(Words(y)[k]) = WordEnd(y, p) - p + 1
        /\ \A d \in 0..(WordEnd(y, p) - p) : Words(y)[k][d + 1] = y[p + d]
    BY <2>1, WordAt
  <2>4. WordEnd(x, i) - i = WordEnd(y, p) - p
    BY <2>2, <2>3
  <2>5. \A d \in 0..(WordEnd(x, i) - i) : p + d <= WordEnd(y, p) /\ y[p + d] = x[i + d]
    BY <2>2, <2>3, <2>4
  <2> QED
    BY <2>4, <2>5, <2>2 DEF p
<1> QED
  BY <1>1, <1>3 DEF Alike

\* Texts with single blanks are equal when their words are.
LEMMA WordsTellTexts ==
    ASSUME NEW x \in Text, NEW y \in Text, SingleBlanks(x), SingleBlanks(y)
    PROVE  x = y <=> Words(x) = Words(y)
<1> SUFFICES ASSUME Words(x) = Words(y) PROVE x = y
  OBVIOUS
<1>1. Len(x) \in Nat /\ Len(y) \in Nat
  BY TextPlaces
<1>2. Alike(x, y, Len(x)) /\ Alike(y, x, Len(y))
  BY SameWordsAlike
<1>3. \A n \in 1..Len(x) : n <= Len(y) /\ y[n] = x[n]
  <2>1. Len(x) \in Nat /\ Len(x) <= Len(x)
    BY <1>1
  <2> QED
    BY <1>2, <2>1, WordsGivePrefix DEF Alike
<1>4. \A n \in 1..Len(y) : n <= Len(x)
  <2>1. Len(y) \in Nat /\ Len(y) <= Len(y)
    BY <1>1
  <2> QED
    BY <1>2, <2>1, WordsGivePrefix DEF Alike
<1>5. Len(x) = Len(y)
  <2>1. Len(x) = 0 \/ Len(x) \in 1..Len(x)
    BY <1>1
  <2>2. Len(y) = 0 \/ Len(y) \in 1..Len(y)
    BY <1>1
  <2> QED
    BY <1>1, <1>3, <1>4, <2>1, <2>2
<1> QED
  BY <1>3, <1>5, SeqEqual DEF Text

-----------------------------------------------------------------------------
(* Case does not move white space and makes no glob sign. *)

LEMMA LowerIs ==
    ASSUME NEW t \in Text
    PROVE  /\ LowerCase(t) \in Text /\ Len(LowerCase(t)) = Len(t)
           /\ \A i \in 1..Len(t) : /\ LowerCase(t)[i] = Lower[t[i]]
                                   /\ LowerCase(t)[i] \in Spaces <=> t[i] \in Spaces
                                   /\ LowerCase(t)[i] = Star <=> t[i] = Star
           /\ Ink(LowerCase(t)) = Ink(t) /\ Kept(LowerCase(t)) = Kept(t)
<1> DEFINE u == LowerCase(t)
<1>1. Len(t) \in Nat /\ DOMAIN t = 1..Len(t) /\ \A i \in 1..Len(t) : t[i] \in Fragments
  BY TextPlaces
<1>2. u = [i \in 1..Len(t) |-> Lower[t[i]]]
  BY <1>1 DEF LowerCase
<1>3. \A f \in Fragments : /\ Lower[f] \in Fragments
                           /\ Lower[f] \in Spaces <=> f \in Spaces
                           /\ Lower[f] = Star <=> f = Star
  BY TextAssumption
<1>4. u \in [1..Len(t) -> Fragments]
  BY <1>1, <1>2, <1>3
<1>5. u \in Text /\ Len(u) = Len(t) /\ DOMAIN u = DOMAIN t
  BY <1>1, <1>4, SeqDef, LenProperties DEF Text
<1>6. \A i \in 1..Len(t) : /\ u[i] = Lower[t[i]]
                           /\ u[i] \in Spaces <=> t[i] \in Spaces
                           /\ u[i] = Star <=> t[i] = Star
  BY <1>1, <1>2, <1>3
<1>7. Ink(u) = Ink(t)
  BY <1>1, <1>5, <1>6 DEF Ink
<1>8. Kept(u) = Kept(t)
  BY <1>5, <1>7 DEF Kept
<1> QED
  BY <1>5, <1>6, <1>7, <1>8

\* _matches_any lowers after normalising (security.py 145, 153); it could
\* as well before.
LEMMA LowerNormal ==
    ASSUME NEW t \in Text
    PROVE  LowerCase(Normalize(t)) = Normalize(LowerCase(t))
<1> DEFINE u == LowerCase(t)
           K == Kept(t)
           n == Cardinality(K)
           N == Normalize(t)
<1>1. /\ DOMAIN t = 1..Len(t) /\ DOMAIN u = 1..Len(t) /\ Kept(u) = K /\ Ink(u) = Ink(t)
      /\ \A i \in 1..Len(t) : u[i] = Lower[t[i]]
  <2>1. u \in Text /\ Len(u) = Len(t)
    BY LowerIs
  <2>2. DOMAIN t = 1..Len(t) /\ DOMAIN u = 1..Len(t)
    BY <2>1, TextPlaces
  <2> QED
    BY <2>2, LowerIs
<1>2. \A k \in 1..n : Nth(K, k) \in 1..Len(t)
  <2>1. \A k \in 1..n : Nth(K, k) \in K
    BY PlacesAreFinite, NthIsInverse
  <2>2. \A i \in K : i \in 1..Len(t)
    BY <1>1, TextPlaces DEF Kept
  <2> QED
    BY <2>1, <2>2
<1>3. Lower[Blank] = Blank
  BY TextAssumption
<1> HIDE DEF u, K, n
<1>4. N = [k \in 1..n |-> IF Nth(K, k) \in Ink(t) THEN t[Nth(K, k)] ELSE Blank]
  BY <1>1, <1>2 DEF Normalize, Subsequence, K, n
<1>5. Normalize(u) = [k \in 1..n |-> IF Nth(K, k) \in Ink(t) THEN u[Nth(K, k)] ELSE Blank]
  BY <1>1, <1>2 DEF Normalize, Subsequence, n
<1>6. LowerCase(N) = [k \in 1..n |-> Lower[N[k]]]
  BY <1>4 DEF LowerCase
<1> HIDE DEF N
<1>7. \A k \in 1..n : Lower[N[k]] = IF Nth(K, k) \in Ink(t) THEN u[Nth(K, k)] ELSE Blank
  BY <1>1, <1>2, <1>3, <1>4
<1>8. LowerCase(N) = Normalize(u)
  BY <1>5, <1>6, <1>7
<1> QED
  BY <1>8 DEF u, N

\* Normalising loses no glob sign and brings none.
LEMMA StarsOfNormal ==
    ASSUME NEW t \in Text
    PROVE  Star \in Range(LowerCase(Normalize(t))) <=> Star \in Range(t)
<1> DEFINE N == Normalize(t)
           L == LowerCase(N)
<1>1. N \in Text /\ L \in Text /\ Len(L) = Len(N) /\ DOMAIN L = 1..Len(N) /\ DOMAIN t = 1..Len(t)
  <2>1. N \in Text
    BY NormalizeIs
  <2>2. L \in Text /\ Len(L) = Len(N)
    BY <2>1, LowerIs
  <2> QED
    BY <2>1, <2>2, TextPlaces
<1>2. \A k \in 1..Len(N) : L[k] = Star <=> N[k] = Star
  BY <1>1, LowerIs
<1>3. Star \notin Spaces /\ Blank \in Spaces
  BY TextAssumption
<1>4. \A k \in 1..Len(N) : /\ Source(t, k) \in 1..Len(t)
                           /\ N[k] = IF Source(t, k) \in Ink(t) THEN t[Source(t, k)] ELSE Blank
  BY NormalizeIs
<1>5. \A i \in Ink(t) : \E k \in 1..Len(N) : Source(t, k) = i
  BY NormalizeIs DEF Kept
<1>6. \A i : i \in Ink(t) <=> i \in 1..Len(t) /\ t[i] \notin Spaces
  BY TextPlaces
<1> HIDE DEF N, L
<1>7. Star \in Range(L) <=> \E k \in 1..Len(N) : L[k] = Star
  BY <1>1 DEF Range
<1>8. Star \in Range(t) <=> \E i \in 1..Len(t) : t[i] = Star
  BY <1>1 DEF Range
<1>9. (\E k \in 1..Len(N) : L[k] = Star) <=> \E i \in 1..Len(t) : t[i] = Star
  BY <1>2, <1>3, <1>4, <1>5, <1>6
<1> QED
  BY <1>7, <1>8, <1>9 DEF N, L

-----------------------------------------------------------------------------
(* What an entry matches is what it denotes. *)

\* An entry that start-up accepts and that is written with single blanks
\* matches, character by character, the commands that it denotes word by word
\* (security.py 7-10, 109-118 and 140-155).
THEOREM EntriesMeanWhatIsWritten ==
    ASSUME NEW e \in Text, NEW c \in Text, Tidy(e), e \notin InvalidGlobs({e})
    PROVE  Matches(Normalize(c), e) <=> Denotes(e, c)
<1> DEFINE p == LowerCase(Strip(e))
           x == LowerCase(Normalize(c))
           u == Words(LowerCase(e))
           v == Words(LowerCase(c))
           m == Len(p) - 1
<1>1. Strip(e) = Normalize(e) /\ Strip(e) \in Text
  BY NormalizeIs DEF Tidy
<1>2. /\ p \in Text /\ x \in Text /\ SingleBlanks(p) /\ SingleBlanks(x)
      /\ Words(p) = u /\ Words(x) = v /\ Len(p) = Len(Strip(e)) /\ Len(p) \in Nat
  <2>1. LowerCase(e) \in Text /\ LowerCase(c) \in Text
    BY LowerIs
  <2>2. p = Normalize(LowerCase(e)) /\ x = Normalize(LowerCase(c))
    BY <1>1, LowerNormal
  <2>3. /\ p \in Text /\ x \in Text /\ SingleBlanks(p) /\ SingleBlanks(x)
        /\ Words(p) = u /\ Words(x) = v
    BY <2>1, <2>2, NormalizeIs, NormalIsSingle, WordsOfNormal
  <2>4. Len(p) = Len(Strip(e))
    BY <1>1, LowerIs
  <2> QED
    BY <2>3, <2>4, TextPlaces
<1>3. Star \in Range(p) <=> Star \in Range(e)
  BY <1>1, StarsOfNormal
<1> HIDE DEF p, x, u, v
<1>4. CASE Star \notin Range(e)
  <2>1. Matches(Normalize(c), e) <=> x = p
    BY <1>3, <1>4 DEF Matches, p, x
  <2>2. Denotes(e, c) <=> v = u
    BY <1>4 DEF Denotes, u, v
  <2>3. x = p <=> v = u
    BY <1>2, WordsTellTexts
  <2> QED
    BY <2>1, <2>2, <2>3
<1>5. CASE Star \in Range(e)
  <2>1. Len(p) # 0 /\ Len(p) # 1
    <3> DEFINE s == Strip(e)
               stars == {i \in DOMAIN s : s[i] = Star}
    <3>1. DOMAIN s = 1..Len(s) /\ Len(s) = Len(p) /\ DOMAIN p = 1..Len(p)
      BY <1>1, <1>2, TextPlaces
    <3>2. PICK i \in 1..Len(p) : p[i] = Star
      BY <1>3, <1>5, <3>1 DEF Range
    <3>3. s[i] = Star /\ i \in stars
      BY <1>1, <3>1, <3>2, LowerIs DEF p
    <3>4. ASSUME Len(p) = 1 PROVE FALSE
      <4>1. i = 1
        BY <3>2, <3>4
      <4>2. <<Star>> \in Text /\ Len(<<Star>>) = 1 /\ <<Star>>[1] = Star
        BY TextAssumption DEF Text
      <4>3. s = <<Star>>
        <5>1. \A j \in 1..Len(s) : s[j] = <<Star>>[j]
          BY <3>1, <3>3, <3>4, <4>1, <4>2
        <5>2. s \in Seq(Fragments) /\ <<Star>> \in Seq(Fragments) /\ Len(s) = Len(<<Star>>)
          BY <1>1, <3>1, <3>4, <4>2 DEF Text
        <5> HIDE DEF s
        <5> QED
          BY <5>1, <5>2, SeqEqual
      <4> QED
        BY <3>3, <4>3 DEF InvalidGlobs
    <3> QED
      BY <1>2, <3>2, <3>4
  <2>2. m \in Nat \ {0} /\ Len(p) = m + 1 /\ m <= Len(p)
    BY <1>2, <2>1
  <2>3. Matches(Normalize(c), e) <=> IsPrefix(Front(p), x)
    BY <1>3, <1>5 DEF Matches, p, x
  <2>4. IsPrefix(Front(p), x) <=> m <= Len(x) /\ \A i \in 1..m : p[i] = x[i]
    <3>1. p \in Seq(Fragments) /\ x \in Seq(Fragments) /\ Len(p) # 0
      BY <1>2, <2>1 DEF Text
    <3> QED
      BY <3>1, FrontIsPrefix
  <2>5. Denotes(e, c) <=> Alike(p, x, m)
    <3>1. (/\ Len(Words(x)) >= Len(Words(p)) /\ IsPrefix(Front(Words(p)), Words(x))
           /\ IsPrefix(Front(Words(p)[Len(Words(p))]), Words(x)[Len(Words(p))]))
              <=> Alike(p, x, m)
      BY <1>2, <2>1, WordsBegin
    <3>2. Denotes(e, c) <=> /\ Len(v) >= Len(u) /\ IsPrefix(Front(u), v)
                            /\ IsPrefix(Front(u[Len(u)]), v[Len(u)])
      BY <1>5 DEF Denotes, u, v
    <3> QED
      BY <1>2, <3>1, <3>2
  <2> HIDE DEF m
  <2>6. (m <= Len(x) /\ \A i \in 1..m : p[i] = x[i]) <=> \A i \in 1..m : i <= Len(x) /\ x[i] = p[i]
    <3>1. m \in 1..m /\ Len(x) \in Nat
      BY <1>2, <2>2, TextPlaces
    <3> QED
      BY <2>2, <3>1
  <2>7. (\A i \in 1..m : i <= Len(x) /\ x[i] = p[i]) => Alike(p, x, m)
    BY <1>2, <2>2, PrefixGivesWords
  <2>8. Alike(p, x, m) => \A i \in 1..m : i <= Len(x) /\ x[i] = p[i]
    <3>1. m \in Nat
      BY <2>2
    <3> QED
      BY <1>2, <2>2, <3>1, WordsGivePrefix DEF Alike
  <2> QED
    BY <2>3, <2>4, <2>5, <2>6, <2>7, <2>8
<1> QED
  BY <1>4, <1>5

\* What an operator's list matches is what one of its entries denotes.
LEMMA ListsMeanWhatIsWritten ==
    ASSUME NEW entries \in SUBSET Text, NEW c \in Text, \A e \in entries : Tidy(e),
           InvalidGlobs(entries) = {}
    PROVE  MatchesAny(Normalize(c), entries) <=> \E e \in entries : Denotes(e, c)
<1>1. ASSUME NEW e \in entries
      PROVE  Matches(Normalize(c), e) <=> Denotes(e, c)
  <2>1. e \in Text /\ Tidy(e) /\ e \notin InvalidGlobs({e})
    BY <1>1 DEF InvalidGlobs
  <2> QED
    BY <2>1, EntriesMeanWhatIsWritten
<1> QED
  BY <1>1 DEF MatchesAny

-----------------------------------------------------------------------------
(* Deny first, and the baseline. *)

\* A denied entry wins over every allowed one, and nothing is allowed that is
\* not safe and named by an allowed entry (security.py 3-5).
LEMMA DenyWins ==
    ASSUME NEW command, NEW p \in Policy
    PROVE  ValidateCommand(command, p).allowed <=>
              /\ Range(command) \cap Unsafe = {}
              /\ ~MatchesAny(Normalize(command), p.denied)
              /\ MatchesAny(Normalize(command), p.allowed)
BY DEF ValidateCommand, Reason

\* Denying more never allows more: what a policy allows is also allowed by one
\* with the same allowed and fewer denied entries.
LEMMA DenyingIsMonotone ==
    ASSUME NEW command, NEW p \in Policy, NEW fewer \in SUBSET p.denied,
           ValidateCommand(command, p).allowed
    PROVE  ValidateCommand(command, [p EXCEPT !.denied = fewer]).allowed
<1>1. Reason(command, p) = "ALLOWED"
  BY DEF ValidateCommand
<1>2. ~MatchesAny(Normalize(command), fewer)
  BY <1>1 DEF Reason, MatchesAny
<1>3. Reason(command, [p EXCEPT !.denied = fewer]) = "ALLOWED"
  BY <1>1, <1>2 DEF Reason, Policy
<1> QED
  BY <1>3 DEF ValidateCommand

\* Without white space nothing is stripped and nothing is normalised.
LEMMA InkOnly ==
    ASSUME NEW t \in Text, Len(t) # 0, \A i \in 1..Len(t) : t[i] \notin Spaces
    PROVE  Strip(t) = t /\ Normalize(t) = t
<1>1. Len(t) \in Nat /\ Ink(t) = 1..Len(t) /\ t \in Seq(Fragments)
  BY TextPlaces DEF Text
<1>2. Min(Ink(t)) = 1 /\ Max(Ink(t)) = Len(t)
  <2>1. 1 \in 1..Len(t) /\ Len(t) \in 1..Len(t)
    BY <1>1
  <2>2. /\ Min(1..Len(t)) \in 1..Len(t) /\ \A j \in 1..Len(t) : Min(1..Len(t)) <= j
    BY <1>1, <2>1 DEF Min
  <2>3. /\ Max(1..Len(t)) \in 1..Len(t) /\ \A j \in 1..Len(t) : Max(1..Len(t)) >= j
    BY <1>1, <2>1 DEF Max
  <2>4. Min(1..Len(t)) = 1
    BY <1>1, <2>1, <2>2
  <2>5. Max(1..Len(t)) = Len(t)
    BY <1>1, <2>1, <2>3
  <2> QED
    BY <1>1, <2>4, <2>5
<1>3. Strip(t) = t
  <2>1. SubSeq(t, 1, Len(t)) = t
    BY <1>1, SubSeqFull
  <2>2. Ink(t) # {}
    <3>1. 1 \in 1..Len(t)
      BY <1>1
    <3> QED
      BY <1>1, <3>1
  <2>3. Strip(t) = SubSeq(t, Min(Ink(t)), Max(Ink(t)))
    BY <2>2, Zenon DEF Strip
  <2> QED
    BY <1>2, <2>1, <2>3, Zenon
<1>4. Normalize(t) = t
  <2>1. SingleBlanks(t) /\ SingleBlanks(Normalize(t)) /\ Normalize(t) \in Text
    BY NormalIsSingle, NormalizeIs DEF SingleBlanks
  <2>2. Words(Normalize(t)) = Words(t)
    BY WordsOfNormal
  <2> QED
    BY <2>1, <2>2, WordsTellTexts
<1> QED
  BY <1>3, <1>4

\* The baseline is a list that start-up would accept, written with single blanks.
LEMMA BaselineIsTidy ==
    /\ Baseline \in SUBSET Text /\ InvalidGlobs(Baseline) = {}
    /\ \A e \in Baseline : Strip(e) = e /\ Tidy(e)
<1>1. ASSUME NEW e \in Baseline
      PROVE  /\ e \in Text /\ Len(e) \in {1, 2} /\ e[1] \in {Shutdown, Clear}
             /\ Len(e) = 2 => e[2] = Star
             /\ DOMAIN e = 1..Len(e)
  <2>1. CASE e = <<Shutdown>>
    BY <2>1, TextAssumption DEF Text
  <2>2. CASE e = <<Shutdown, Star>>
    BY <2>2, TextAssumption DEF Text
  <2>3. CASE e = <<Clear, Star>>
    BY <2>3, TextAssumption DEF Text
  <2> QED
    BY <2>1, <2>2, <2>3 DEF Baseline
<1>2. Star \notin {Shutdown, Clear} /\ {Shutdown, Clear, Star} \cap Spaces = {}
  BY TextAssumption
<1>3. ASSUME NEW e \in Baseline
      PROVE  Strip(e) = e /\ Tidy(e)
  <2>1. Len(e) # 0 /\ \A i \in 1..Len(e) : e[i] \notin Spaces
    BY <1>1, <1>2
  <2> QED
    BY <1>1, <2>1, InkOnly DEF Tidy
<1>4. ASSUME NEW e \in Baseline
      PROVE  e \notin InvalidGlobs(Baseline)
  <2> DEFINE stars == {i \in DOMAIN e : e[i] = Star}
  <2>1. /\ Len(e) \in {1, 2} /\ e[1] # Star
        /\ Len(e) = 2 => e[2] = Star
        /\ DOMAIN e = 1..Len(e)
    BY <1>1, <1>2
  <2>2. stars = {} \/ stars = {Len(e)}
    <3>1. CASE Len(e) = 1
      BY <2>1, <3>1
    <3>2. CASE Len(e) = 2
      BY <2>1, <3>2
    <3> QED
      BY <2>1, <3>1, <3>2
  <2>3. e # <<Star>>
    BY <2>1
  <2> QED
    BY <1>3, <2>2, <2>3 DEF InvalidGlobs
<1> QED
  BY <1>1, <1>3, <1>4 DEF InvalidGlobs

\* Whatever its case, a command that starts with a baseline word is matched by
\* the baseline entry with that word and a glob sign.
LEMMA BaselineMatches ==
    ASSUME NEW command, NEW w \in {Shutdown, Clear},
           IsPrefix(<<w>>, LowerCase(command))
    PROVE  MatchesAny(command, Baseline)
<1> DEFINE t == <<w, Star>>
<1>1. t \in Baseline
  BY DEF Baseline
<1>2. LowerCase(Strip(t)) = t
  <2>1. Strip(t) = t
    BY <1>1, BaselineIsTidy
  <2>2. LowerCase(t) = t
    BY TextAssumption DEF LowerCase
  <2> QED
    BY <2>1, <2>2
<1>3. Star \in Range(t)
  BY DEF Range
<1>4. Front(t) = <<w>>
  <2>1. t \in Seq({w, Star}) /\ Len(t) = 2 /\ t[1] = w
    OBVIOUS
  <2>2. /\ Front(t) \in Seq({w, Star}) /\ Len(Front(t)) = 2 - 1
        /\ \A i \in 1..(2 - 1) : Front(t)[i] = t[i]
    <3>1. Len(t) # 0
      BY <2>1
    <3> HIDE DEF t
    <3> QED
      BY <2>1, <3>1, FrontPlaces
  <2>3. <<w>> \in Seq({w, Star}) /\ Len(<<w>>) = 1 /\ <<w>>[1] = w
    OBVIOUS
  <2>4. \A i \in 1..Len(Front(t)) : Front(t)[i] = <<w>>[i]
    BY <2>1, <2>2, <2>3
  <2> HIDE DEF t
  <2> QED
    BY <2>2, <2>3, <2>4, SeqEqual
<1>5. Matches(command, t)
  BY <1>2, <1>3, <1>4 DEF Matches
<1> QED
  BY <1>1, <1>5 DEF MatchesAny

\* The policy that configuration lines are judged by.
LEMMA ConfigPolicy ==
    ASSUME NEW p \in Policy
    PROVE  LET q == [p EXCEPT !.denied = @ \cup Baseline]
           IN  q \in Policy /\ q.allowed = p.allowed /\ q.denied = p.denied \cup Baseline
BY BaselineIsTidy DEF Policy

\* The verdict on a configuration line, spelt out.
LEMMA ConfigVerdict ==
    ASSUME NEW command, NEW p \in Policy
    PROVE  ValidateConfigCommand(command, p).allowed <=>
              /\ Range(command) \cap Unsafe = {}
              /\ ~MatchesAny(Normalize(command), p.denied \cup Baseline)
              /\ MatchesAny(Normalize(command), p.allowed)
<1> DEFINE q == [p EXCEPT !.denied = @ \cup Baseline]
<1>1. q \in Policy /\ q.allowed = p.allowed /\ q.denied = p.denied \cup Baseline
  BY ConfigPolicy
<1>2. ValidateConfigCommand(command, p) = ValidateCommand(command, q)
  BY DEF ValidateConfigCommand
<1> HIDE DEF q
<1>3. ValidateCommand(command, q).allowed <=>
         /\ Range(command) \cap Unsafe = {}
         /\ ~MatchesAny(Normalize(command), q.denied)
         /\ MatchesAny(Normalize(command), q.allowed)
  BY <1>1, DenyWins
<1> QED
  BY <1>1, <1>2, <1>3

\* Whatever an operator allows, no configuration line is allowed that starts
\* with a baseline word (security.py 34-46, README.md 106).
THEOREM BaselineAlwaysDenied ==
    ASSUME NEW command, NEW p \in Policy, NEW w \in {Shutdown, Clear},
           IsPrefix(<<w>>, LowerCase(Normalize(command)))
    PROVE  ~ValidateConfigCommand(command, p).allowed
<1>1. MatchesAny(Normalize(command), p.denied \cup Baseline)
  BY BaselineMatches DEF MatchesAny
<1> QED
  BY <1>1, ConfigVerdict

\* What a configuration line is let through for, word by word.
THEOREM ConfigVerdictsMeanWhatIsWritten ==
    ASSUME NEW p \in Policy, NEW c \in Text, ValidateCommandLists(p) = {},
           \A e \in p.allowed \cup p.denied : Tidy(e)
    PROVE  ValidateConfigCommand(c, p).allowed <=>
              /\ Range(c) \cap Unsafe = {}
              /\ \E e \in p.allowed : Denotes(e, c)
              /\ \A e \in p.denied \cup Baseline : ~Denotes(e, c)
<1>1. p.allowed \in SUBSET Text /\ p.denied \in SUBSET Text
  BY DEF Policy
<1>2. InvalidGlobs(p.allowed) = {} /\ InvalidGlobs(p.denied) = {}
  BY DEF ValidateCommandLists
<1>3. MatchesAny(Normalize(c), p.allowed) <=> \E e \in p.allowed : Denotes(e, c)
  BY <1>1, <1>2, ListsMeanWhatIsWritten
<1>4. MatchesAny(Normalize(c), p.denied) <=> \E e \in p.denied : Denotes(e, c)
  BY <1>1, <1>2, ListsMeanWhatIsWritten
<1>5. MatchesAny(Normalize(c), Baseline) <=> \E e \in Baseline : Denotes(e, c)
  BY BaselineIsTidy, ListsMeanWhatIsWritten
<1>6. MatchesAny(Normalize(c), p.denied \cup Baseline) <=>
         MatchesAny(Normalize(c), p.denied) \/ MatchesAny(Normalize(c), Baseline)
  BY DEF MatchesAny
<1>7. ValidateConfigCommand(c, p).allowed <=>
         /\ Range(c) \cap Unsafe = {}
         /\ ~MatchesAny(Normalize(c), p.denied \cup Baseline)
         /\ MatchesAny(Normalize(c), p.allowed)
  BY ConfigVerdict
<1> QED
  BY <1>3, <1>4, <1>5, <1>6, <1>7

-----------------------------------------------------------------------------
(* A verdict is about the words of a command, whatever its case and blanks. *)

\* Two safe spellings of one command get the same verdict for the same reason,
\* whatever is in the lists (security.py 179-193).
THEOREM SpellingDoesNotMatter ==
    ASSUME NEW p, NEW c \in Text, NEW d \in Text,
           Words(LowerCase(c)) = Words(LowerCase(d)),
           Range(c) \cap Unsafe = {}, Range(d) \cap Unsafe = {}
    PROVE  Reason(c, p) = Reason(d, p)
<1>1. LowerCase(Normalize(c)) = LowerCase(Normalize(d))
  <2>1. LowerCase(c) \in Text /\ LowerCase(d) \in Text
    BY LowerIs
  <2>2. Normalize(LowerCase(c)) = Normalize(LowerCase(d))
    <3> DEFINE x == Normalize(LowerCase(c))
               y == Normalize(LowerCase(d))
    <3>1. x \in Text /\ y \in Text /\ SingleBlanks(x) /\ SingleBlanks(y)
      BY <2>1, NormalizeIs, NormalIsSingle
    <3>2. Words(x) = Words(y)
      BY <2>1, WordsOfNormal
    <3> HIDE DEF x, y
    <3>3. x = y
      BY <3>1, <3>2, WordsTellTexts
    <3> QED
      BY <3>3 DEF x, y
  <2> QED
    BY <2>2, LowerNormal
<1>2. \A e : Matches(Normalize(c), e) <=> Matches(Normalize(d), e)
  BY <1>1 DEF Matches
<1>3. \A entries : MatchesAny(Normalize(c), entries) <=> MatchesAny(Normalize(d), entries)
  BY <1>2 DEF MatchesAny
<1> QED
  BY <1>3 DEF Reason

\* What is sent, the normalised command, would get the verdict that the command
\* got as the client wrote it (server.py 456-483).
THEOREM SentIsWhatWasJudged ==
    ASSUME NEW p, NEW c \in Text, Range(c) \cap Unsafe = {}
    PROVE  /\ Normalize(Normalize(c)) = Normalize(c)
           /\ Reason(Normalize(c), p) = Reason(c, p)
<1> DEFINE x == Normalize(c)
<1>1. x \in Text /\ LowerCase(c) \in Text /\ SingleBlanks(x)
  BY NormalizeIs, NormalIsSingle, LowerIs
<1>2. Words(LowerCase(x)) = Words(LowerCase(c))
  BY <1>1, LowerNormal, WordsOfNormal
<1>3. Range(x) \cap Unsafe = {}
  <2>1. \A k \in 1..Len(x) : x[k] \in Range(c) \/ x[k] = Blank
    <3>1. \A i \in 1..Len(c) : c[i] \in Range(c)
      BY TextPlaces DEF Range
    <3>2. \A k \in 1..Len(x) :
             /\ Source(c, k) \in 1..Len(c)
             /\ x[k] = IF Source(c, k) \in Ink(c) THEN c[Source(c, k)] ELSE Blank
      BY NormalizeIs
    <3> HIDE DEF x
    <3> QED
      BY <3>1, <3>2
  <2>2. DOMAIN x = 1..Len(x)
    BY <1>1, TextPlaces
  <2> HIDE DEF x
  <2>3. \A f \in Range(x) : f \in Range(c) \/ f = Blank
    BY <2>1, <2>2 DEF Range
  <2> QED
    BY <2>3, TextAssumption
<1>4. Normalize(x) = x
  <2>1. Normalize(x) \in Text /\ SingleBlanks(Normalize(x)) /\ Words(Normalize(x)) = Words(x)
    BY <1>1, NormalizeIs, NormalIsSingle, WordsOfNormal
  <2> HIDE DEF x
  <2> QED
    BY <1>1, <2>1, WordsTellTexts
<1>5. Reason(x, p) = Reason(c, p)
  BY <1>1, <1>2, <1>3, SpellingDoesNotMatter
<1> QED
  BY <1>4, <1>5
=============================================================================
