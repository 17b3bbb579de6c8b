---------------------------- MODULE PortalKeysProofs ----------------------------
(***************************************************************************)
(* Theorems of StorageKeys and PortalKeys: what the key rules do to words  *)
(* of any length, and what a row's names therefore lead to.                *)
(***************************************************************************)
EXTENDS PortalKeys, CollectionPortalProofs

-----------------------------------------------------------------------------
(* Positions.  The k-th of a set of positions is found by its rank, a      *)
(* bijection of the set onto 1..Cardinality.                               *)

UpTo(P, i) == {j \in P : j <= i}
Rank(P, i) == Cardinality(UpTo(P, i))

LEMMA RankType ==
    ASSUME NEW P \in SUBSET Int, IsFiniteSet(P)
    PROVE  /\ IsFiniteSet(P) /\ Cardinality(P) \in Nat
           /\ \A i \in P : Rank(P, i) \in 1..Cardinality(P)
<1>2. IsFiniteSet(P) /\ Cardinality(P) \in Nat
  BY FS_CardinalityType
<1>3. ASSUME NEW i \in P PROVE Rank(P, i) \in 1..Cardinality(P)
  <2>1. UpTo(P, i) \in SUBSET P /\ i \in UpTo(P, i)
    BY DEF UpTo
  <2>2. /\ IsFiniteSet(UpTo(P, i)) /\ Rank(P, i) <= Cardinality(P)
        /\ Rank(P, i) \in Nat
    BY <2>1, FS_Subset, FS_CardinalityType DEF Rank
  <2>3. Rank(P, i) # 0
    BY <2>1, <2>2, FS_EmptySet DEF Rank
  <2> QED
    BY <1>2, <2>2, <2>3
<1> QED
  BY <1>2, <1>3

LEMMA RankGrows ==
    ASSUME NEW P \in SUBSET Int, IsFiniteSet(P), NEW i \in P, NEW j \in P, i < j
    PROVE  Rank(P, i) < Rank(P, j)
<1>0. i \in Int /\ j \in Int /\ \A x \in P : x \in Int
  OBVIOUS
<1>1. UpTo(P, i) \in SUBSET UpTo(P, j)
  <2>1. \A x \in P : x <= i => x <= j
    BY <1>0
  <2> QED
    BY <2>1 DEF UpTo
<1>2. j \in UpTo(P, j) /\ j \notin UpTo(P, i)
  <2>1. j <= j /\ ~ (j <= i)
    BY <1>0
  <2> QED
    BY <2>1 DEF UpTo
<1>3. UpTo(P, j) \in SUBSET P
  BY DEF UpTo
<1>4. IsFiniteSet(UpTo(P, j))
  BY <1>3, FS_Subset
<1>5. /\ Rank(P, i) <= Rank(P, j)
      /\ Rank(P, i) # Rank(P, j)
  BY <1>1, <1>2, <1>4, FS_Subset DEF Rank
<1>6. Rank(P, i) \in Nat /\ Rank(P, j) \in Nat
  BY RankType
<1> QED
  BY <1>5, <1>6

\* Positions are ordered as their ranks are.
LEMMA RankOrders ==
    ASSUME NEW P \in SUBSET Int, IsFiniteSet(P), NEW i \in P, NEW j \in P
    PROVE  /\ Rank(P, i) < Rank(P, j) <=> i < j
           /\ Rank(P, i) = Rank(P, j) <=> i = j
<1>1. i \in Int /\ j \in Int /\ Rank(P, i) \in Nat /\ Rank(P, j) \in Nat
  BY RankType
<1>2. i < j => Rank(P, i) < Rank(P, j)
  BY RankGrows
<1>3. j < i => Rank(P, j) < Rank(P, i)
  BY RankGrows
<1> QED
  BY <1>1, <1>2, <1>3

LEMMA NthOfRank ==
    ASSUME NEW P \in SUBSET Int, IsFiniteSet(P), NEW k \in 1..Cardinality(P)
    PROVE  Nth(P, k) \in P /\ Rank(P, Nth(P, k)) = k
<1> DEFINE f == [i \in P |-> Rank(P, i)]
           T == 1..Cardinality(P)
<1>1. f \in [P -> T]
  BY RankType
<1>2. \A i, j \in P : f[i] = f[j] => i = j
  BY RankOrders
<1>3. f \in Injection(P, T)
  BY <1>1, <1>2 DEF Injection, IsInjective
<1>4. IsFiniteSet(T) /\ Cardinality(T) = Cardinality(P)
  BY RankType, FS_Interval
<1>5. f \in Surjection(P, T)
  BY <1>3, <1>4, FS_Injection
<1>6. \E i \in P : Rank(P, i) = k
  BY <1>5 DEF Surjection
<1> QED
  BY <1>6 DEF Nth, Rank, UpTo

\* The k-th position is the only one of rank k, positions are counted in
\* their order, and none lies between two that are counted in a row.
LEMMA NthIsSorted ==
    ASSUME NEW P \in SUBSET Int, IsFiniteSet(P)
    PROVE  /\ \A i \in P : Nth(P, Rank(P, i)) = i
           /\ \A k, m \in 1..Cardinality(P) : k < m => Nth(P, k) < Nth(P, m)
           /\ \A k \in 1..(Cardinality(P) - 1), i \in P :
                ~ (Nth(P, k) < i /\ i < Nth(P, k + 1))
<1>1. Cardinality(P) \in Nat
  BY RankType
<1>2. ASSUME NEW i \in P PROVE Nth(P, Rank(P, i)) = i
  <2>1. Rank(P, i) \in 1..Cardinality(P)
    BY RankType
  <2>2. Nth(P, Rank(P, i)) \in P /\ Rank(P, Nth(P, Rank(P, i))) = Rank(P, i)
    BY <2>1, NthOfRank
  <2> QED
    BY <2>2, RankOrders
<1>3. ASSUME NEW k \in 1..Cardinality(P), NEW m \in 1..Cardinality(P), k < m
      PROVE  Nth(P, k) < Nth(P, m)
  <2>1. /\ Nth(P, k) \in P /\ Rank(P, Nth(P, k)) = k
        /\ Nth(P, m) \in P /\ Rank(P, Nth(P, m)) = m
    BY NthOfRank
  <2>2. Rank(P, Nth(P, k)) < Rank(P, Nth(P, m))
    BY <1>3, <2>1
  <2> QED
    BY <2>1, <2>2, RankOrders
<1>4. ASSUME NEW k \in 1..(Cardinality(P) - 1), NEW i \in P,
             Nth(P, k) < i, i < Nth(P, k + 1)
      PROVE  FALSE
  <2>0. k \in 1..Cardinality(P) /\ k + 1 \in 1..Cardinality(P) /\ k \in Nat
    BY <1>1
  <2>1. /\ Nth(P, k) \in P /\ Rank(P, Nth(P, k)) = k
        /\ Nth(P, k + 1) \in P /\ Rank(P, Nth(P, k + 1)) = k + 1
    BY <2>0, NthOfRank
  <2>2. Rank(P, Nth(P, k)) < Rank(P, i) /\ Rank(P, i) < Rank(P, Nth(P, k + 1))
    BY <1>4, <2>1, RankOrders
  <2>3. Rank(P, i) \in Nat
    BY RankType
  <2> QED
    BY <2>0, <2>1, <2>2, <2>3
<1> QED
  BY <1>2, <1>3, <1>4

LEMMA FirstAndLast ==
    ASSUME NEW P \in SUBSET Int, IsFiniteSet(P), P # {}
    PROVE  /\ Min(P) \in P /\ Max(P) \in P
           /\ \A i \in P : Min(P) <= i /\ i <= Max(P)
<1>1. Cardinality(P) \in Nat /\ Cardinality(P) # 0
  BY RankType, FS_EmptySet
<1> DEFINE first == Nth(P, 1)
           last  == Nth(P, Cardinality(P))
<1>2. 1 \in 1..Cardinality(P) /\ Cardinality(P) \in 1..Cardinality(P)
  BY <1>1
<1>3. first \in P /\ Rank(P, first) = 1 /\ last \in P /\ Rank(P, last) = Cardinality(P)
  BY <1>2, NthOfRank
<1> HIDE DEF first, last
<1>4. ASSUME NEW i \in P PROVE first <= i /\ i <= last
  <2>1. Rank(P, i) \in 1..Cardinality(P)
    BY RankType
  <2>2. ~ (Rank(P, i) < Rank(P, first)) /\ ~ (Rank(P, last) < Rank(P, i))
    BY <1>1, <1>3, <2>1
  <2>3. ~ (i < first) /\ ~ (last < i)
    BY <1>3, <2>2, RankOrders
  <2>4. i \in Int /\ first \in Int /\ last \in Int
    BY <1>3
  <2> QED
    BY <2>3, <2>4
<1>5. \E i \in P : \A j \in P : i <= j
  BY <1>3, <1>4
<1>6. \E i \in P : \A j \in P : i >= j
  <2>1. \A j \in P : last >= j
    <3>1. ASSUME NEW j \in P PROVE last >= j
      <4>1. j \in Int /\ last \in Int /\ j <= last
        BY <1>3, <1>4
      <4> QED
        BY <4>1
    <3> QED
      BY <3>1
  <2> QED
    BY <1>3, <2>1
<1>7. Min(P) \in P /\ \A i \in P : Min(P) <= i
  BY <1>5 DEF Min
<1>8. Max(P) \in P /\ \A i \in P : Max(P) >= i
  BY <1>6 DEF Max
<1> QED
  BY <1>7, <1>8
-----------------------------------------------------------------------------
(* Strip. *)

Text == Seq(Characters)

LEMMA TextType ==
    ASSUME NEW word \in Text
    PROVE  /\ Len(word) \in Nat /\ DOMAIN word = 1..Len(word)
           /\ \A i \in 1..Len(word) : word[i] \in Characters
           /\ word = [i \in 1..Len(word) |-> word[i]]
           /\ word # <<>> => /\ Len(word) # 0
                             /\ 1 \in 1..Len(word) /\ Len(word) \in 1..Len(word)
BY DEF Text

LEMMA ShortTexts ==
    ASSUME NEW x \in Characters, NEW y \in Characters
    PROVE  /\ <<x>> \in Text /\ Len(<<x>>) = 1 /\ <<x>>[1] = x
           /\ <<x, y>> \in Text /\ Len(<<x, y>>) = 2
           /\ <<x, y>>[1] = x /\ <<x, y>>[2] = y
BY DEF Text

LEMMA JoinedTexts ==
    ASSUME NEW p \in Text, NEW q \in Text
    PROVE  /\ p \o q \in Text /\ Len(p \o q) = Len(p) + Len(q)
           /\ \A i \in 1..Len(p) : (p \o q)[i] = p[i]
           /\ \A i \in 1..Len(q) : (p \o q)[Len(p) + i] = q[i]
<1>1. p \o q \in Text /\ Len(p \o q) = Len(p) + Len(q)
  BY DEF Text
<1>2. \A i \in 1..Len(p) : (p \o q)[i] = p[i]
  BY DEF Text
<1>3. \A i \in 1..Len(q) : (p \o q)[Len(p) + i] = q[i]
  BY DEF Text
<1> QED
  BY <1>1, <1>2, <1>3

\* The numbers up to n, and those of them that some rule picks.
LEMMA Numbers ==
    ASSUME NEW n \in Nat
    PROVE  /\ IsFiniteSet(1..n) /\ Cardinality(1..n) = n
           /\ 1..n \in SUBSET Int
           /\ \A k \in 1..n : {j \in 1..n : j <= k} = 1..k
           /\ \A S \in SUBSET (1..n) : IsFiniteSet(S) /\ S \in SUBSET Int
<1>1. IsFiniteSet(1..n) /\ Cardinality(1..n) = n
  <2>1. 1 \in Int /\ n \in Int
    OBVIOUS
  <2>2. IsFiniteSet(1..n) /\ Cardinality(1..n) = IF 1 > n THEN 0 ELSE n - 1 + 1
    BY <2>1, FS_Interval
  <2> QED
    BY <2>2
<1>2. ASSUME NEW S \in SUBSET (1..n) PROVE IsFiniteSet(S) /\ S \in SUBSET Int
  <2>1. IsFiniteSet(S)
    BY <1>1, FS_Subset
  <2>2. S \in SUBSET Int
    OBVIOUS
  <2> QED
    BY <2>1, <2>2
<1>3. ASSUME NEW k \in 1..n PROVE {j \in 1..n : j <= k} = 1..k
  OBVIOUS
<1> QED
  BY <1>1, <1>2, <1>3

\* Whatever is stripped off, a stretch of the word is left that has none of it
\* at either end.
LEMMA StripLeaves ==
    ASSUME NEW word \in Text, NEW drop
    PROVE  LET s == Strip(word, drop) IN
             /\ s \in Text
             /\ s # <<>> => s[1] \notin drop /\ s[Len(s)] \notin drop
             /\ \E c \in Nat : /\ c + Len(s) <= Len(word)
                              /\ \A i \in 1..Len(s) : s[i] = word[c + i]
<1> DEFINE kept == {i \in DOMAIN word : word[i] \notin drop}
           s == Strip(word, drop)
<1>1. Len(word) \in Nat /\ DOMAIN word = 1..Len(word)
  BY DEF Text
<1>2. kept \in SUBSET (1..Len(word)) /\ kept \in SUBSET Int
  BY <1>1
<1>3. CASE kept = {}
  <2>1. s = <<>>
    BY <1>3 DEF Strip
  <2>2. s \in Text /\ Len(s) = 0
    BY <2>1 DEF Text
  <2>3. 0 \in Nat /\ 0 + Len(s) <= Len(word) /\ \A i \in 1..Len(s) : s[i] = word[0 + i]
    BY <1>1, <2>2
  <2> QED
    BY <2>1, <2>2, <2>3
<1>4. CASE kept # {}
  <2> DEFINE m == Min(kept)
             n == Max(kept)
  <2>1. IsFiniteSet(kept)
    BY <1>1, <1>2, Numbers
  <2>2. m \in kept /\ n \in kept /\ m <= n
    BY <1>2, <1>4, <2>1, FirstAndLast
  <2>3. s = SubSeq(word, m, n)
    BY <1>4 DEF Strip
  <2>4. /\ m \in 1..Len(word) /\ n \in 1..Len(word)
        /\ word[m] \notin drop /\ word[n] \notin drop
    BY <1>2, <2>2
  <2> HIDE DEF m, n, s, kept
  <2>5. s \in Text /\ Len(s) = n - m + 1
    BY <1>1, <2>2, <2>3, <2>4 DEF Text
  <2>6. \A i \in 1..Len(s) : s[i] = word[m + i - 1]
    BY <1>1, <2>2, <2>3, <2>4, <2>5 DEF Text
  <2>7. s[1] = word[m] /\ s[Len(s)] = word[n]
    BY <1>1, <2>2, <2>4, <2>5, <2>6
  <2>8. /\ m - 1 \in Nat /\ (m - 1) + Len(s) <= Len(word)
        /\ \A i \in 1..Len(s) : s[i] = word[(m - 1) + i]
    BY <1>1, <2>2, <2>4, <2>5, <2>6
  <2> QED
    BY <2>4, <2>5, <2>7, <2>8 DEF s
<1> QED
  BY <1>3, <1>4

\* A word without them at its ends is left alone.
LEMMA StripKeeps ==
    ASSUME NEW word \in Text, NEW drop,
           word # <<>> => word[1] \notin drop /\ word[Len(word)] \notin drop
    PROVE  Strip(word, drop) = word
<1> DEFINE kept == {i \in DOMAIN word : word[i] \notin drop}
<1>1. Len(word) \in Nat /\ DOMAIN word = 1..Len(word)
  BY DEF Text
<1>2. CASE word = <<>>
  <2>1. kept = {}
    BY <1>2, <1>1
  <2> QED
    BY <1>2, <2>1 DEF Strip
<1>3. CASE word # <<>>
  <2>1. Len(word) # 0
    BY <1>3 DEF Text
  <2>2. 1 \in kept /\ Len(word) \in kept
    BY <1>1, <1>3, <2>1
  <2>3. kept \in SUBSET (1..Len(word)) /\ kept \in SUBSET Int /\ kept # {}
    BY <1>1, <2>2
  <2>4. IsFiniteSet(kept)
    BY <1>1, <2>3, Numbers
  <2>5. /\ Min(kept) \in kept /\ Max(kept) \in kept
        /\ \A i \in kept : Min(kept) <= i /\ i <= Max(kept)
    BY <2>3, <2>4, FirstAndLast
  <2>6. Min(kept) = 1 /\ Max(kept) = Len(word)
    <3>1. Min(kept) <= 1 /\ Len(word) <= Max(kept)
      BY <2>2, <2>5
    <3>2. Min(kept) \in 1..Len(word) /\ Max(kept) \in 1..Len(word)
      BY <2>3, <2>5
    <3> QED
      BY <1>1, <3>1, <3>2
  <2>7. Strip(word, drop) = SubSeq(word, 1, Len(word))
    BY <2>3, <2>6 DEF Strip
  <2> QED
    BY <2>7 DEF Text
<1> QED
  BY <1>2, <1>3

-----------------------------------------------------------------------------
(* Squeeze. *)

LEMMA KeptType ==
    ASSUME NEW word \in Text, NEW other
    PROVE  /\ Len(word) \in Nat /\ DOMAIN word = 1..Len(word)
           /\ Kept(word, other) \in SUBSET (1..Len(word))
           /\ Kept(word, other) \in SUBSET Int
           /\ IsFiniteSet(Kept(word, other))
           /\ Cardinality(Kept(word, other)) \in Nat
<1>1. Len(word) \in Nat /\ DOMAIN word = 1..Len(word)
  BY DEF Text
<1>2. Kept(word, other) \in SUBSET (1..Len(word))
  BY <1>1 DEF Kept
<1>3. IsFiniteSet(Kept(word, other))
  BY <1>1, <1>2, Numbers
<1> QED
  BY <1>1, <1>2, <1>3, FS_CardinalityType

\* What is left: no character of `other` but "_", and if "_" is one of them, no
\* two of it in a row.
LEMMA SqueezeLeaves ==
    ASSUME NEW word \in Text, NEW other
    PROVE  LET s == Squeeze(word, other) IN
             /\ s \in Text
             /\ \A k \in 1..Len(s) : s[k] = "_" \/ s[k] \notin other
             /\ "_" \in other =>
                  \A k \in 1..(Len(s) - 1) : ~ (s[k] = "_" /\ s[k + 1] = "_")
<1> DEFINE P == Kept(word, other)
           C == Cardinality(P)
           s == Squeeze(word, other)
<1>1. /\ Len(word) \in Nat /\ DOMAIN word = 1..Len(word)
      /\ P \in SUBSET (1..Len(word)) /\ P \in SUBSET Int
      /\ IsFiniteSet(P) /\ C \in Nat
  BY KeptType
<1>2. ASSUME NEW k \in 1..C
      PROVE  /\ Nth(P, k) \in P /\ Nth(P, k) \in 1..Len(word)
             /\ word[Nth(P, k)] \in Characters
             /\ s[k] = IF word[Nth(P, k)] \in other THEN "_" ELSE word[Nth(P, k)]
             /\ s[k] \in Characters
  <2>1. Nth(P, k) \in P /\ Nth(P, k) \in 1..Len(word)
    BY <1>1, NthOfRank
  <2>2. word[Nth(P, k)] \in Characters
    BY <2>1 DEF Text
  <2>3. s[k] = IF word[Nth(P, k)] \in other THEN "_" ELSE word[Nth(P, k)]
    BY DEF Squeeze
  <2>4. "_" \in Characters
    BY WordsAreSpelled DEF Special
  <2> HIDE DEF s, P, C
  <2> QED
    BY <2>1, <2>2, <2>3, <2>4
<1>3. s \in [1..C -> Characters]
  <2>1. s = [k \in 1..C |-> s[k]]
    BY DEF Squeeze
  <2> HIDE DEF s, C, P
  <2> QED
    BY <1>2, <2>1
<1>4. s \in Text /\ Len(s) = C
  BY <1>1, <1>3 DEF Text
<1>5. \A k \in 1..Len(s) : s[k] = "_" \/ s[k] \notin other
  BY <1>2, <1>4
<1>6. ASSUME "_" \in other, NEW k \in 1..(Len(s) - 1), s[k] = "_", s[k + 1] = "_"
      PROVE  FALSE
  <2> DEFINE i == Nth(P, k)
             j == Nth(P, k + 1)
  <2>1. k \in 1..C /\ k + 1 \in 1..C /\ k < k + 1 /\ k \in 1..(C - 1)
    BY <1>1, <1>4
  <2>2. /\ i \in P /\ i \in 1..Len(word) /\ word[i] \in other
        /\ j \in P /\ j \in 1..Len(word) /\ word[j] \in other
    BY <1>2, <1>6, <2>1
  <2>3. i < j
    BY <1>1, <2>1, NthIsSorted
  <2>4. ~ (i < j - 1 /\ j - 1 < j /\ j - 1 \in P)
    BY <1>1, <2>1, NthIsSorted
  <2> HIDE DEF i, j
  <2>5. j - 1 \in 1..Len(word) /\ j - 1 < j /\ j # 1
    BY <1>1, <2>2, <2>3
  <2>6. word[j - 1] \notin other
    BY <2>2, <2>5 DEF Kept
  <2>7. j - 1 \in P /\ j - 1 # i
    BY <1>1, <2>2, <2>5, <2>6 DEF Kept
  <2>8. i < j - 1
    BY <1>1, <2>2, <2>3, <2>5, <2>7
  <2> QED
    BY <2>4, <2>5, <2>7, <2>8
<1> QED
  BY <1>4, <1>5, <1>6

LEMMA NthOfNumbers ==
    ASSUME NEW n \in Nat, NEW k \in 1..n
    PROVE  Nth(1..n, k) = k
<1>1. IsFiniteSet(1..n) /\ 1..n \in SUBSET Int
  BY Numbers
<1>2. k \in Nat
  OBVIOUS
<1>3. UpTo(1..n, k) = 1..k
  BY Numbers DEF UpTo
<1>4. Rank(1..n, k) = k
  BY <1>2, <1>3, Numbers DEF Rank
<1> QED
  BY <1>1, <1>4, NthIsSorted

\* A word of that shape is left alone.
LEMMA SqueezeKeeps ==
    ASSUME NEW word \in Text, NEW other,
           \A i \in 1..Len(word) : word[i] \in other =>
              word[i] = "_" /\ (i = 1 \/ word[i - 1] \notin other)
    PROVE  Squeeze(word, other) = word
<1> DEFINE n == Len(word)
<1>1. /\ n \in Nat /\ DOMAIN word = 1..n
      /\ word = [k \in 1..n |-> word[k]]
  BY TextType
<1>2. Kept(word, other) = 1..n
  BY <1>1 DEF Kept
<1>3. IsFiniteSet(1..n) /\ Cardinality(1..n) = n /\ 1..n \in SUBSET Int
  BY <1>1, Numbers
<1>4. \A k \in 1..n : Nth(1..n, k) = k
  BY <1>1, NthOfNumbers
<1>5. Squeeze(word, other)
        = [k \in 1..n |-> IF word[k] \in other THEN "_" ELSE word[k]]
  <2>1. Squeeze(word, other)
          = [k \in 1..n |-> IF word[Nth(1..n, k)] \in other THEN "_"
                            ELSE word[Nth(1..n, k)]]
    BY <1>2, <1>3 DEF Squeeze
  <2> QED
    BY <1>4, <2>1
<1>6. \A k \in 1..n : (IF word[k] \in other THEN "_" ELSE word[k]) = word[k]
  BY DEF n
<1> QED
  BY <1>1, <1>5, <1>6
-----------------------------------------------------------------------------
(* Slugs and folders. *)

SlugShaped(s) ==
    /\ s \in Text /\ s # <<>>
    /\ s[1] # "_" /\ s[Len(s)] # "_"
    /\ \A i \in 1..Len(s) : s[i] = "_" \/ s[i] \notin Special
    /\ \A i \in 1..(Len(s) - 1) : ~ (s[i] = "_" /\ s[i + 1] = "_")

\* Whatever was typed, its slug has single "_", and none at either end.
THEOREM SlugLeaves ==
    ASSUME NEW word \in Text
    PROVE  SlugShaped(Slug(word))
<1> DEFINE v == Squeeze(Strip(word, Blank), Special)
           s == Strip(v, {"_"})
<1>1. /\ v \in Text
      /\ \A k \in 1..Len(v) : v[k] = "_" \/ v[k] \notin Special
      /\ \A k \in 1..(Len(v) - 1) : ~ (v[k] = "_" /\ v[k + 1] = "_")
  <2>1. Strip(word, Blank) \in Text
    BY StripLeaves
  <2>2. "_" \in Special
    BY DEF Special
  <2> QED
    BY <2>1, <2>2, SqueezeLeaves
<1> HIDE DEF v
<1>2. s \in Text /\ (s # <<>> => s[1] # "_" /\ s[Len(s)] # "_")
  <2>1. /\ s \in Text
        /\ s # <<>> => s[1] \notin {"_"} /\ s[Len(s)] \notin {"_"}
    BY <1>1, StripLeaves
  <2> HIDE DEF s
  <2> QED
    BY <2>1
<1>3. PICK c \in Nat : c + Len(s) <= Len(v) /\ \A i \in 1..Len(s) : s[i] = v[c + i]
  BY <1>1, StripLeaves
<1> HIDE DEF s
<1>4. Len(s) \in Nat /\ Len(v) \in Nat
  BY <1>1, <1>2, TextType
<1>5. ASSUME NEW i \in 1..Len(s) PROVE s[i] = "_" \/ s[i] \notin Special
  <2>1. c + i \in 1..Len(v)
    BY <1>3, <1>4
  <2> QED
    BY <1>1, <1>3, <2>1
<1>6. ASSUME NEW i \in 1..(Len(s) - 1) PROVE ~ (s[i] = "_" /\ s[i + 1] = "_")
  <2>1. /\ c + i \in 1..(Len(v) - 1) /\ i \in 1..Len(s) /\ i + 1 \in 1..Len(s)
        /\ c + (i + 1) = (c + i) + 1
    BY <1>3, <1>4
  <2> QED
    BY <1>1, <1>3, <2>1
<1>7. CASE s # <<>>
  <2>1. Slug(word) = s
    BY <1>7 DEF Slug, OrElse, s, v
  <2> QED
    BY <1>2, <1>5, <1>6, <1>7, <2>1 DEF SlugShaped
<1>8. CASE s = <<>>
  <2>1. Slug(word) = <<"unknown">>
    BY <1>8 DEF Slug, OrElse, s, v
  <2>2. <<"unknown">> \in Text /\ Len(<<"unknown">>) = 1 /\ <<"unknown">>[1] = "unknown"
    BY WordsAreSpelled, ShortTexts
  <2>3. "unknown" # "_" /\ "unknown" \notin Special /\ <<"unknown">> # <<>>
    BY DEF Special, Blank
  <2> DEFINE u == <<"unknown">>
  <2> HIDE DEF u
  <2>4. u \in Text /\ Len(u) = 1 /\ u[1] = "unknown" /\ u # <<>> /\ Slug(word) = u
    BY <2>1, <2>2, <2>3 DEF u
  <2>5. \A i \in 1..Len(u) : i = 1
    <3>1. Len(u) = 1
      BY <2>4
    <3> QED
      BY <3>1
  <2>6. 1..(Len(u) - 1) = {}
    <3>1. Len(u) = 1
      BY <2>4
    <3> QED
      BY <3>1
  <2>7. u[Len(u)] = "unknown"
    BY <2>4
  <2>8. SlugShaped(u)
    BY <2>3, <2>4, <2>5, <2>6, <2>7 DEF SlugShaped
  <2> QED
    BY <2>4, <2>8
<1> QED
  BY <1>7, <1>8

\* A slug slugs to itself.
LEMMA SlugKeeps ==
    ASSUME NEW s, SlugShaped(s)
    PROVE  Slug(s) = s
<1>1. s \in Text /\ s # <<>>
  BY DEF SlugShaped
<1>2. Len(s) \in Nat /\ 1 \in 1..Len(s) /\ Len(s) \in 1..Len(s)
  BY <1>1, TextType
<1>3. Strip(s, Blank) = s
  <2>1. s[1] \notin Blank /\ s[Len(s)] \notin Blank
    BY <1>2 DEF SlugShaped, Special
  <2> QED
    BY <1>1, <2>1, StripKeeps
<1>4. Squeeze(s, Special) = s
  <2>1. ASSUME NEW i \in 1..Len(s), s[i] \in Special
        PROVE  s[i] = "_" /\ (i = 1 \/ s[i - 1] \notin Special)
    <3>1. s[i] = "_"
      BY <2>1 DEF SlugShaped
    <3>2. CASE i # 1
      <4>1. i - 1 \in 1..(Len(s) - 1) /\ (i - 1) + 1 = i /\ i - 1 \in 1..Len(s)
        BY <1>2, <3>2
      <4>2. s[i - 1] # "_"
        BY <3>1, <4>1 DEF SlugShaped
      <4> QED
        BY <3>1, <4>1, <4>2 DEF SlugShaped
    <3> QED
      BY <3>1, <3>2
  <2> QED
    BY <1>1, <2>1, SqueezeKeeps
<1>5. Strip(s, {"_"}) = s
  BY <1>1, StripKeeps DEF SlugShaped
<1> QED
  BY <1>1, <1>3, <1>4, <1>5 DEF Slug, OrElse

Joined(p, q) == p \o <<"_", "_">> \o q

LEMMA JoinedSlugs ==
    ASSUME NEW p \in Text, NEW q \in Text
    PROVE  /\ Len(Joined(p, q)) = Len(p) + 2 + Len(q)
           /\ \A i \in 1..Len(p) : Joined(p, q)[i] = p[i]
           /\ Joined(p, q)[Len(p) + 1] = "_" /\ Joined(p, q)[Len(p) + 2] = "_"
           /\ \A i \in 1..Len(q) : Joined(p, q)[Len(p) + 2 + i] = q[i]
<1> DEFINE bar == <<"_", "_">>
           m == p \o bar
<1>1. Len(p) \in Nat /\ Len(q) \in Nat
  BY TextType
<1>2. bar \in Text /\ Len(bar) = 2 /\ bar[1] = "_" /\ bar[2] = "_"
  BY WordsAreSpelled, ShortTexts DEF Special
<1>3. Joined(p, q) = m \o q
  BY DEF Joined
<1> HIDE DEF bar
<1>4. /\ m \in Text /\ Len(m) = Len(p) + Len(bar)
      /\ \A i \in 1..Len(p) : m[i] = p[i]
      /\ \A i \in 1..Len(bar) : m[Len(p) + i] = bar[i]
  BY <1>2, JoinedTexts
<1> HIDE DEF m
<1>5. m[Len(p) + 1] = "_" /\ m[Len(p) + 2] = "_" /\ Len(m) = Len(p) + 2
  <2>1. Len(bar) = 2
    BY <1>2
  <2>2. 1 \in 1..Len(bar) /\ 2 \in 1..Len(bar)
    BY <2>1
  <2> QED
    BY <1>2, <1>4, <2>2
<1>6. /\ Len(m \o q) = Len(m) + Len(q)
      /\ \A i \in 1..Len(m) : (m \o q)[i] = m[i]
      /\ \A i \in 1..Len(q) : (m \o q)[Len(m) + i] = q[i]
  BY <1>4, JoinedTexts
<1>7. /\ \A i \in 1..Len(p) : i \in 1..Len(m)
      /\ Len(p) + 1 \in 1..Len(m) /\ Len(p) + 2 \in 1..Len(m)
  <2>1. Len(m) = Len(p) + 2
    BY <1>5
  <2> QED
    BY <1>1, <2>1
<1>8. \A i \in 1..Len(p) : Joined(p, q)[i] = p[i]
  BY <1>3, <1>4, <1>6, <1>7
<1>9. Joined(p, q)[Len(p) + 1] = "_" /\ Joined(p, q)[Len(p) + 2] = "_"
  BY <1>3, <1>5, <1>6, <1>7
<1>10. \A i \in 1..Len(q) : Joined(p, q)[Len(p) + 2 + i] = q[i]
  BY <1>3, <1>5, <1>6
<1> QED
  BY <1>3, <1>5, <1>6, <1>8, <1>9, <1>10

\* A slug cannot reach into the "__" that follows a shorter one.
LEMMA FolderCutsOnce ==
    ASSUME NEW p \in Text, NEW q \in Text, NEW r \in Text, NEW t \in Text,
           SlugShaped(r), Joined(p, q) = Joined(r, t)
    PROVE  ~ (Len(p) < Len(r))
<1> SUFFICES ASSUME Len(p) < Len(r) PROVE FALSE
  OBVIOUS
<1>1. Len(p) \in Nat /\ Len(r) \in Nat
  BY TextType
<1>2. /\ Joined(r, t)[Len(p) + 1] = "_" /\ Joined(r, t)[Len(p) + 2] = "_"
      /\ \A i \in 1..Len(r) : Joined(r, t)[i] = r[i]
  <2>1. /\ Joined(p, q)[Len(p) + 1] = "_" /\ Joined(p, q)[Len(p) + 2] = "_"
        /\ \A i \in 1..Len(r) : Joined(r, t)[i] = r[i]
    BY JoinedSlugs
  <2> QED
    BY <2>1
<1>3. r[Len(p) + 1] = "_"
  <2>1. Len(p) + 1 \in 1..Len(r)
    BY <1>1
  <2> QED
    BY <1>2, <2>1
<1>4. Len(p) + 1 # Len(r)
  BY <1>3 DEF SlugShaped
<1>5. /\ Len(p) + 1 \in 1..(Len(r) - 1) /\ Len(p) + 2 \in 1..Len(r)
      /\ (Len(p) + 1) + 1 = Len(p) + 2
  BY <1>1, <1>4
<1>6. r[Len(p) + 2] = "_"
  BY <1>2, <1>5
<1> QED
  BY <1>3, <1>5, <1>6 DEF SlugShaped

\* The "__" in the middle of a folder's name is the only one there, so the
\* name gives back both slugs.
LEMMA JoinedSplits ==
    ASSUME NEW a \in Text, NEW b \in Text, NEW c \in Text, NEW d \in Text,
           SlugShaped(a), SlugShaped(c), Joined(a, b) = Joined(c, d)
    PROVE  a = c /\ b = d
<1>1. /\ Len(a) \in Nat /\ Len(b) \in Nat /\ Len(c) \in Nat /\ Len(d) \in Nat
      /\ a = [i \in 1..Len(a) |-> a[i]] /\ b = [i \in 1..Len(b) |-> b[i]]
      /\ c = [i \in 1..Len(c) |-> c[i]] /\ d = [i \in 1..Len(d) |-> d[i]]
  BY TextType
<1>2. Len(a) = Len(c)
  <2>1. ~ (Len(a) < Len(c)) /\ ~ (Len(c) < Len(a))
    BY FolderCutsOnce
  <2>2. Len(a) \in Nat /\ Len(c) \in Nat
    BY <1>1
  <2> QED
    BY <2>1, <2>2
<1>3. /\ Len(Joined(a, b)) = Len(a) + 2 + Len(b)
      /\ \A i \in 1..Len(a) : Joined(a, b)[i] = a[i]
      /\ \A i \in 1..Len(b) : Joined(a, b)[Len(a) + 2 + i] = b[i]
  BY JoinedSlugs
<1>4. /\ Len(Joined(c, d)) = Len(c) + 2 + Len(d)
      /\ \A i \in 1..Len(c) : Joined(c, d)[i] = c[i]
      /\ \A i \in 1..Len(d) : Joined(c, d)[Len(c) + 2 + i] = d[i]
  BY JoinedSlugs
<1>5. Len(b) = Len(d)
  <2>1. Len(a) + 2 + Len(b) = Len(c) + 2 + Len(d)
    BY <1>3, <1>4
  <2>2. Len(a) \in Nat /\ Len(b) \in Nat /\ Len(c) \in Nat /\ Len(d) \in Nat
    BY <1>1
  <2> QED
    BY <1>2, <2>1, <2>2
<1>6. \A i \in 1..Len(a) : a[i] = c[i]
  BY <1>2, <1>3, <1>4
<1>7. \A i \in 1..Len(b) : b[i] = d[i]
  BY <1>2, <1>3, <1>4, <1>5
<1>8. a = c
  BY <1>1, <1>2, <1>6
<1>9. b = d
  BY <1>1, <1>5, <1>7
<1> QED
  BY <1>8, <1>9

\* Two cases share a folder only if both of their slugs agree, for words of any
\* length and spelling (case_folder, slugify).
THEOREM FolderTellsSlugs ==
    ASSUME NEW v \in Text, NEW w \in Text, NEW x \in Text, NEW y \in Text,
           CaseFolder(v, w) = CaseFolder(x, y)
    PROVE  Slug(v) = Slug(x) /\ Slug(w) = Slug(y)
<1>1. /\ Slug(v) \in Text /\ Slug(w) \in Text /\ Slug(x) \in Text /\ Slug(y) \in Text
      /\ SlugShaped(Slug(v)) /\ SlugShaped(Slug(x))
  BY SlugLeaves DEF SlugShaped
<1>2. Joined(Slug(v), Slug(w)) = Joined(Slug(x), Slug(y))
  BY DEF CaseFolder, Joined
<1> QED
  BY <1>1, <1>2, JoinedSplits

-----------------------------------------------------------------------------
(* File names. *)

FileShaped(s) ==
    /\ s \in Text /\ s # <<>>
    /\ s[1] \notin {".", "_"} /\ s[Len(s)] \notin {".", "_"}
    /\ \A i \in 1..Len(s) : s[i] \notin {" ", "/"}

\* Whatever name a client sent, the stored name has neither a slash nor a
\* blank, and begins and ends with neither a dot nor a "_".
THEOREM SanitizeLeaves ==
    ASSUME NEW word \in Text
    PROVE  FileShaped(Sanitize(word))
<1> DEFINE v == Squeeze(Strip(word, Blank), {" ", "/"})
           s == Strip(v, {".", "_"})
<1>1. v \in Text /\ \A k \in 1..Len(v) : v[k] \notin {" ", "/"}
  <2>1. Strip(word, Blank) \in Text
    BY StripLeaves
  <2>2. v \in Text /\ \A k \in 1..Len(v) : v[k] = "_" \/ v[k] \notin {" ", "/"}
    BY <2>1, SqueezeLeaves
  <2> HIDE DEF v
  <2>3. "_" \notin {" ", "/"}
    OBVIOUS
  <2> QED
    BY <2>2, <2>3
<1> HIDE DEF v
<1>2. s \in Text /\ (s # <<>> => s[1] \notin {".", "_"} /\ s[Len(s)] \notin {".", "_"})
  BY <1>1, StripLeaves
<1>3. PICK c \in Nat : c + Len(s) <= Len(v) /\ \A i \in 1..Len(s) : s[i] = v[c + i]
  <2>1. v \in Text
    BY <1>1
  <2> QED
    BY <2>1, StripLeaves
<1> HIDE DEF s
<1>4. Len(s) \in Nat /\ Len(v) \in Nat
  BY <1>1, <1>2, TextType
<1>5. ASSUME NEW i \in 1..Len(s) PROVE s[i] \notin {" ", "/"}
  <2>1. c + i \in 1..Len(v)
    BY <1>3, <1>4
  <2> QED
    BY <1>1, <1>3, <2>1
<1>6. CASE s # <<>>
  <2>1. Sanitize(word) = s
    BY <1>6 DEF Sanitize, OrElse, s, v
  <2> QED
    BY <1>2, <1>5, <1>6, <2>1 DEF FileShaped
<1>7. CASE s = <<>>
  <2> DEFINE u == <<"file">>
  <2>1. Sanitize(word) = u
    BY <1>7 DEF Sanitize, OrElse, s, v
  <2>2. u \in Text /\ Len(u) = 1 /\ u[1] = "file"
    BY WordsAreSpelled, ShortTexts
  <2>3. u # <<>>
    OBVIOUS
  <2> HIDE DEF u
  <2>4. \A i \in 1..Len(u) : u[i] = "file"
    <3>1. Len(u) = 1
      BY <2>2
    <3>2. \A i \in 1..Len(u) : i = 1
      BY <3>1
    <3> QED
      BY <2>2, <3>2
  <2>5. u[Len(u)] = "file"
    BY <2>2
  <2> QED
    BY <2>1, <2>2, <2>3, <2>4, <2>5 DEF FileShaped
<1> QED
  BY <1>6, <1>7

\* A stored name is sanitized to itself.
LEMMA SanitizeKeeps ==
    ASSUME NEW s \in Text, FileShaped(s)
    PROVE  Sanitize(s) = s
<1>1. s # <<>>
  BY DEF FileShaped
<1>2. 1 \in 1..Len(s) /\ Len(s) \in 1..Len(s)
  BY <1>1, TextType
<1>3. Strip(s, Blank) = s
  <2>1. s[1] \notin Blank /\ s[Len(s)] \notin Blank
    BY <1>2 DEF FileShaped, Blank
  <2> QED
    BY <2>1, StripKeeps
<1>4. Squeeze(s, {" ", "/"}) = s
  BY SqueezeKeeps DEF FileShaped
<1>5. Strip(s, {".", "_"}) = s
  BY StripKeeps DEF FileShaped
<1> QED
  BY <1>1, <1>3, <1>4, <1>5 DEF Sanitize, OrElse

\* A stored name has a stem: it does not begin with its last dot.
LEMMA StemLeaves ==
    ASSUME NEW s \in Text, FileShaped(s)
    PROVE  /\ Stem(s) \in Text /\ Stem(s) # <<>>
           /\ Len(Stem(s)) <= Len(s)
           /\ \A i \in 1..Len(Stem(s)) : Stem(s)[i] = s[i]
<1> DEFINE dots == {i \in DOMAIN s : s[i] = "."}
           n == Max(dots) - 1
<1>1. Len(s) \in Nat /\ DOMAIN s = 1..Len(s) /\ s # <<>>
  BY TextType DEF FileShaped
<1>2. CASE dots = {}
  <2>1. Stem(s) = s
    BY <1>2 DEF Stem
  <2> QED
    BY <1>1, <2>1
<1>3. CASE dots # {}
  <2>1. dots \in SUBSET (1..Len(s))
    BY <1>1
  <2>2. dots \in SUBSET Int /\ IsFiniteSet(dots)
    BY <1>1, <2>1, Numbers
  <2>3. Max(dots) \in dots
    BY <1>3, <2>2, FirstAndLast
  <2>4. Max(dots) \in 1..Len(s) /\ s[Max(dots)] = "."
    BY <2>1, <2>3
  <2>5. Max(dots) # 1
    BY <2>4 DEF FileShaped
  <2>6. Stem(s) = SubSeq(s, 1, n)
    BY <1>3 DEF Stem
  <2>7. n \in 1..Len(s)
    <3> DEFINE x == Max(dots)
    <3>1. x \in 1..Len(s) /\ x # 1
      BY <2>4, <2>5
    <3> HIDE DEF x
    <3>2. x - 1 \in 1..Len(s)
      BY <1>1, <3>1
    <3> QED
      BY <3>2 DEF x
  <2> HIDE DEF dots, n
  <2>8. SubSeq(s, 1, n) \in Text /\ Len(SubSeq(s, 1, n)) = n
    BY <1>1, <2>7 DEF Text
  <2>9. \A i \in 1..n : SubSeq(s, 1, n)[i] = s[i]
    BY <1>1, <2>7 DEF Text
  <2>10. SubSeq(s, 1, n) # <<>> /\ n <= Len(s)
    BY <1>1, <2>7, <2>8
  <2> QED
    BY <2>6, <2>8, <2>9, <2>10
<1> QED
  BY <1>2, <1>3

\* The sidecar's name is shaped as the name of the file it belongs to.
THEOREM SidecarLeaves ==
    ASSUME NEW s \in Text, FileShaped(s)
    PROVE  Sidecar(s) \in Text /\ FileShaped(Sidecar(s))
<1> DEFINE a == Stem(s)
           b == <<".", "json">>
           c == a \o b
<1>1. /\ a \in Text /\ a # <<>>
      /\ Len(a) <= Len(s) /\ \A i \in 1..Len(a) : a[i] = s[i]
  BY StemLeaves
<1>2. b \in Text /\ Len(b) = 2 /\ b[1] = "." /\ b[2] = "json"
  BY WordsAreSpelled, ShortTexts DEF Special
<1>3. Sidecar(s) = c
  BY DEF Sidecar
<1> HIDE DEF a, b
<1>4. /\ c \in Text /\ Len(c) = Len(a) + Len(b)
      /\ \A i \in 1..Len(a) : c[i] = a[i]
      /\ \A i \in 1..Len(b) : c[Len(a) + i] = b[i]
  BY <1>1, <1>2, JoinedTexts
<1>5. Len(a) \in Nat /\ Len(s) \in Nat /\ 1 \in 1..Len(a)
  BY <1>1, TextType
<1> HIDE DEF c
<1>6. Len(c) = Len(a) + 2 /\ c[Len(a) + 1] = "." /\ c[Len(a) + 2] = "json"
  <2>1. Len(b) = 2
    BY <1>2
  <2>2. 1 \in 1..Len(b) /\ 2 \in 1..Len(b)
    BY <2>1
  <2> QED
    BY <1>2, <1>4, <2>2
<1>7. c[1] \notin {".", "_"}
  BY <1>1, <1>4, <1>5 DEF FileShaped
<1>8. c[Len(c)] \notin {".", "_"}
  BY <1>6
<1>9. ASSUME NEW i \in 1..Len(c) PROVE c[i] \notin {" ", "/"}
  <2>1. i \in 1..Len(a) \/ i = Len(a) + 1 \/ i = Len(a) + 2
    <3>1. Len(c) = Len(a) + 2
      BY <1>6
    <3> QED
      BY <1>5, <3>1
  <2>2. CASE i \in 1..Len(a)
    <3>1. i \in 1..Len(s)
      BY <1>1, <1>5, <2>2
    <3>2. c[i] = s[i]
      BY <1>1, <1>4, <2>2
    <3> QED
      BY <3>1, <3>2 DEF FileShaped
  <2> QED
    BY <1>6, <2>1, <2>2
<1>10. c # <<>>
  <2>1. Len(c) # 0
    <3>1. Len(c) = Len(a) + 2
      BY <1>6
    <3> QED
      BY <1>5, <3>1
  <2> QED
    BY <2>1
<1> QED
  BY <1>3, <1>4, <1>7, <1>8, <1>9, <1>10 DEF FileShaped
-----------------------------------------------------------------------------
(* Every stored name is a sanitized one: the name of a row comes from the  *)
(* upload that inserted it, and every upload in flight carries one.        *)

Given == {SanitizeFilename[f] : f \in FileNames}

GivenName(u) == u.pc # "save" => u.row.file_name \in Given

NamesInv ==
    /\ \A d \in DocIds : Exists(d) => docs[d].file_name \in Given
    /\ \A h \in Handlers : uploads[h] # Nil => GivenName(uploads[h])

LEMMA UploadGives ==
    ASSUME Inv, NEW h \in Handlers, UploadStep(h), uploads'[h] # Nil,
           uploads[h] # Nil => GivenName(uploads[h])
    PROVE  GivenName(uploads'[h])
<1>1. CASE uploads'[h].pc = "save"
  BY <1>1 DEF GivenName
<1>2. CASE FreshRow(uploads'[h].row)
  BY <1>2 DEF GivenName, FreshRow, Given
<1>3. CASE OcrSucceeds(h) \/ OcrFails(h)
  <2>1. /\ uploads[h] # Nil /\ uploads[h].pc = "ocr"
        /\ uploads'[h].row.file_name = uploads[h].row.file_name
    BY <1>3, OcrAdds
  <2> QED
    BY <2>1 DEF GivenName
<1>4. CASE FindExisting(h)
  <2>1. /\ uploads[h] # Nil /\ uploads[h].pc = "find"
        /\ uploads'[h].row = uploads[h].row
    BY <1>4, FindAdds
  <2> QED
    BY <2>1 DEF GivenName
<1> QED
  BY <1>1, <1>2, <1>3, <1>4, UploadPlans

LEMMA NamesStep ==
    ASSUME Inv, NamesInv, [Next]_vars
    PROVE  NamesInv'
<1>1. ASSUME NEW h \in Handlers, uploads'[h] # Nil PROVE GivenName(uploads'[h])
  <2>1. CASE uploads'[h] = uploads[h]
    BY <1>1, <2>1 DEF NamesInv
  <2>2. CASE UploadStep(h)
    BY <1>1, <2>2, UploadGives DEF NamesInv
  <2> QED
    BY <2>1, <2>2, OtherSteps, UploadLocal
<1>2. ASSUME NEW d \in DocIds, Exists(d)' PROVE docs'[d].file_name \in Given
  <2>1. docs'[d] # Nil /\ docs'[d] # Gone
    BY <1>2 DEF Exists
  <2>2. CASE Exists(d)
    BY <2>1, <2>2, RowKeepsIdentity DEF NamesInv
  <2>3. CASE ~ Exists(d)
    <3>1. PICK h \in Handlers : CommitInsert(h, d)
      BY <2>1, <2>3, RowStep DEF Exists
    <3>2. docs'[d] = uploads[h].row /\ uploads[h] # Nil /\ uploads[h].pc = "commit"
      BY <3>1 DEF CommitInsert, Inv, TypeInv, TypeOK
    <3> QED
      BY <3>2 DEF NamesInv, GivenName
  <2> QED
    BY <2>2, <2>3
<1> QED
  BY <1>1, <1>2 DEF NamesInv

LEMMA StoredNamesAreGiven == Spec => [](Inv /\ NamesInv)
<1>1. Init => NamesInv
  BY DEF Init, NamesInv, Exists
<1>2. Inv /\ NamesInv /\ [Next]_vars => NamesInv'
  BY NamesStep
<1> QED
  BY <1>1, <1>2, Invariance, PTL DEF Spec

\* Whoever uploads again under the name a row shows finds that row's file and
\* its sidecar's, whatever names clients sent (sanitize_filename, json_key).
THEOREM ShownNamesFindTheirRows == Spec => []ShownNameFindsRow
<1>1. ASSUME NamesInv, NEW d \in DocIds, Exists(d)
      PROVE  LET stored == docs[d].file_name IN
               /\ Sanitize(stored) = stored
               /\ Sanitize(Sidecar(stored)) = Sidecar(stored)
  <2> DEFINE stored == docs[d].file_name
  <2>1. PICK f \in FileNames : stored = SanitizeFilename[f]
    BY <1>1 DEF NamesInv, Given
  <2>2. stored = Sanitize(Spelled[f]) /\ Spelled[f] \in Text
    BY <2>1, KeysAreSpelled, WordsAreSpelled DEF Text
  <2> HIDE DEF stored
  <2>3. stored \in Text /\ FileShaped(stored)
    BY <2>2, SanitizeLeaves DEF FileShaped
  <2>4. Sidecar(stored) \in Text /\ FileShaped(Sidecar(stored))
    BY <2>3, SidecarLeaves
  <2>5. Sanitize(stored) = stored /\ Sanitize(Sidecar(stored)) = Sidecar(stored)
    BY <2>3, <2>4, SanitizeKeeps
  <2> QED
    BY <2>5 DEF stored
<1>2. NamesInv => ShownNameFindsRow
  BY <1>1 DEF ShownNameFindsRow
<1> QED
  BY <1>2, StoredNamesAreGiven, PTL

-----------------------------------------------------------------------------
(* Folders. *)

\* A case's folder is its own, whatever reference and client name were typed
\* for it and for any other, of any length (case_folder, slugify).
THEOREM FoldersAreTheirOwn == Spec => []FolderIsItsOwn
<1>1. ASSUME NEW v \in WordSlugs PROVE v \in Text /\ SlugShaped(v)
  <2>1. PICK w \in Words : v = Slug(w)
    BY DEF WordSlugs
  <2>2. PICK n \in 0..MaxLength : w \in [1..n -> Letters \cup Special]
    BY DEF Words
  <2>3. n \in Nat /\ Letters \cup Special \subseteq Characters
    BY WordsAreSpelled
  <2>4. w \in [1..n -> Characters]
    BY <2>2, <2>3
  <2>5. w \in Text
    BY <2>3, <2>4 DEF Text
  <2> QED
    BY <2>1, <2>5, SlugLeaves DEF SlugShaped
<1>2. ASSUME NEW ref \in Text, NEW client \in Text,
             CaseFolder(ref, client) \in DOMAIN PairsIn
      PROVE  PairsIn[CaseFolder(ref, client)] = {<<Slug(ref), Slug(client)>>}
  <2> DEFINE folder == CaseFolder(ref, client)
  <2>1. /\ folder \in {Folders[pair] : pair \in SlugPairs}
        /\ PairsIn[folder] = {pair \in SlugPairs : Folders[pair] = folder}
    BY <1>2 DEF PairsIn
  <2>2. ASSUME NEW pair \in SlugPairs, Folders[pair] = folder
        PROVE  pair = <<Slug(ref), Slug(client)>>
    <3>1. PICK a \in WordSlugs, b \in WordSlugs : pair = <<a, b>>
      BY DEF SlugPairs
    <3>2. a \in Text /\ SlugShaped(a) /\ b \in Text /\ SlugShaped(b)
      BY <1>1
    <3>3. Slug(a) = a /\ Slug(b) = b
      BY <3>2, SlugKeeps
    <3>4. /\ Slug(ref) \in Text /\ SlugShaped(Slug(ref))
          /\ Slug(client) \in Text /\ SlugShaped(Slug(client))
      BY SlugLeaves DEF SlugShaped
    <3>5. Folders[pair] = CaseFolder(a, b)
      BY <3>1 DEF Folders
    <3>6. Joined(a, b) = Joined(Slug(ref), Slug(client))
      BY <2>2, <3>3, <3>5 DEF CaseFolder, Joined
    <3>7. a = Slug(ref) /\ b = Slug(client)
      BY <3>2, <3>4, <3>6, JoinedSplits
    <3> QED
      BY <3>1, <3>7
  <2> HIDE DEF folder
  <2>3. \E pair \in SlugPairs : Folders[pair] = folder
    BY <2>1
  <2>4. PairsIn[folder] = {<<Slug(ref), Slug(client)>>}
    BY <2>1, <2>2, <2>3
  <2> QED
    BY <2>4 DEF folder
<1>3. Inv => FolderIsItsOwn
  <2>1. ASSUME Inv, NEW l \in LinkIds, links[l] # Nil
        PROVE  Spelled[links[l].reference] \in Text /\ Spelled[links[l].client_name] \in Text
    <3>1. links[l].reference \in References /\ links[l].client_name \in Names
      BY <2>1 DEF Inv, TypeInv, TypeOK, Links
    <3> QED
      BY <3>1, WordsAreSpelled DEF Text
  <2> QED
    BY <1>2, <2>1 DEF FolderIsItsOwn
<1> QED
  BY <1>3, Invariance, PTL
=============================================================================
